---- MODULE Spec2Model ----
EXTENDS Integers, Sequences, FiniteSets, TLC

(***************************************************************************)
(* sympaathy-v2: the session cache, the CMS-to-view-model builder, the     *)
(* bootstrap orchestrator (App.load) of the client and the media slider.   *)
(*                                                                         *)
(* JavaScript values.  A property that is absent and a property that holds *)
(* undefined read the same, so both are the value Undefined.  Optional     *)
(* numbers are sequences of length <= 1 (<<>> is undefined), optional      *)
(* objects carry an isNull / found / present flag.                         *)
(***************************************************************************)

VARIABLES
    cms,             \* the content the CMS API serves: [sections, posts]
    sessionStorage,  \* key -> stored item (the raw string, by its shape)
    now,             \* Date.now()
    landingSlides, releases, liveProjects, liveDetailMap, bioSections, contactLinks,
    dataLoaded,      \* the seven useState cells of App
    load,            \* run -> the position and locals of one load() call
    effectPending,   \* the mount effect of App has not run yet
    strictMode,      \* StrictMode double-invokes the mount effect (development build)
    painted,         \* what the browser last painted: the props the routes got
    lastEvent,       \* the step taken last, with the storage it started from
    lastSet,         \* key -> the last setCached call on it (its data and time)
    section,         \* builder run: the section whose posts are under test
    built,           \* builder run: the result of buildDataFromCms
    images,          \* MediaSlider: the images prop
    intervalMs,      \* MediaSlider: the intervalMs prop
    sliderMounted,   \* MediaSlider: the instance is mounted
    files, index, lastManualNavigation, autoPlayPaused,
                     \* MediaSlider: the useState cells
    timeoutId,       \* MediaSlider: the timer the autoplay effect holds (<<>> none)
    timers,          \* the timers pending in the browser, in the order they were armed
    component,       \* index updates: MediaSlider or CrossfadeGallery
    updates,         \* index updates: the setIndex calls not rendered yet
    expected,        \* index updates: the index after every step so far, one at a time
    effects,         \* MediaSlider: the passive effects of the last commit not run yet
    text,            \* scramble: the text of the element, a sequence of characters
    elMounted,       \* scramble: the element is on the page (elRef.current is set)
    observing,       \* scramble: the intersection observer observes the element
    isVisible,       \* scramble: isVisibleRef.current
    delayTimers,     \* scramble: the pending timers of startAnimation
    isAnimating,     \* TextScramble: this.isAnimating
    queue,           \* TextScramble: this.queue
    frame,           \* TextScramble: this.frame
    frameRequests,   \* TextScramble: the pending requestAnimationFrame callbacks
    output,          \* TextScramble: what the element shows, one cell per character
    calls,           \* TextScramble: the setText calls made
    fs,              \* build script: path -> the file at that path
    script,          \* build script: the position, the content built and the exit status
    route            \* Project: the slug of the detail route and whether it redirected

appState == <<landingSlides, releases, liveProjects, liveDetailMap, bioSections, contactLinks>>
sliderState == <<images, intervalMs, sliderMounted, files, index, lastManualNavigation,
                 autoPlayPaused, timeoutId, timers>>
indexState == <<component, updates, expected, effects>>
scrambleState == <<text, elMounted, observing, isVisible, delayTimers, isAnimating, queue, frame,
                   frameRequests, output, calls>>
scriptState == <<fs, script>>
restState == <<indexState, scrambleState, scriptState, route>>
notIndex == <<scrambleState, scriptState, route>>
notScramble == <<indexState, scriptState, route>>
notScript == <<indexState, scrambleState, route>>
notRoute == <<indexState, scrambleState, scriptState>>
vars == <<cms, sessionStorage, now, landingSlides, releases, liveProjects, liveDetailMap,
          bioSections, contactLinks, dataLoaded, load, effectPending, strictMode, painted,
          lastEvent, lastSet, section, built, sliderState, restState>>

-----------------------------------------------------------------------------
(* Bounds *)

MaxPosts == 3

-----------------------------------------------------------------------------
(* Values *)

Undefined == "<undefined>"
Null == [isNull |-> TRUE]

Truthy(s) == s \notin {Undefined, ""}

OrElse(s, d) == IF Truthy(s) THEN s ELSE d

Coalesce(o, d) == IF o = <<>> THEN d ELSE o[1]

RECURSIVE SeqFilterIdx(_, _, _)
SeqFilterIdx(s, keep, i) ==
    IF i > Len(s) THEN <<>>
    ELSE (IF i \in keep THEN <<s[i]>> ELSE <<>>) \o SeqFilterIdx(s, keep, i + 1)

RemoveAt(s, i) == SeqFilterIdx(s, (1..Len(s)) \ {i}, 1)

-----------------------------------------------------------------------------
(* Cache Store *)

CACHE_TTL == 1 * 60 * 1000

BOOTSTRAP_CACHE_KEY == "cms_bootstrap_v2_auto"

Keys == {BOOTSTRAP_CACHE_KEY, "other_key"}

\* sessionStorage.getItem(key): the stored string, null when the key is missing.
\* A stored string is known by its shape:
\*   "empty"   the empty string
\*   "garbage" not JSON (JSON.parse throws)
\*   "json"    a JSON object: data, and timestamp (<<t>> a number, <<>> not a number)
MissingItem == [kind |-> "missing"]
EmptyItem == [kind |-> "empty"]
GarbageItem == [kind |-> "garbage"]
JsonItem(d, ts) == [kind |-> "json", data |-> d, timestamp |-> ts]

\* JSON.stringify({ data, timestamp: Date.now() }).  The data are bundles: strings, numbers,
\* booleans, arrays and plain objects, which JSON keeps; a property holding undefined is
\* dropped, and reads as Undefined before and after.
JsonStringify(d, t) == JsonItem(d, <<t>>)

\* JSON.parse(cached): the parsed object, or a SyntaxError
JsonParse(item) ==
    IF item.kind = "json" THEN [ok |-> TRUE, data |-> item.data, timestamp |-> item.timestamp]
    ELSE [ok |-> FALSE]

getCachedEntry(store, key) ==
    LET cached == store[key] IN
    IF cached.kind \in {"missing", "empty"} THEN Null
    ELSE LET parsed == JsonParse(cached) IN
         IF ~parsed.ok THEN Null                     \* catch
         ELSE IF parsed.timestamp = <<>> THEN Null   \* typeof timestamp !== 'number'
         ELSE [data |-> parsed.data, timestamp |-> parsed.timestamp[1]]

getCachedFreshBelowTtl(store, key, t) ==
    LET entry == getCachedEntry(store, key) IN
    IF entry = Null THEN Null
    ELSE IF t - entry.timestamp >= CACHE_TTL THEN Null
    ELSE entry.data

getCachedFresh(store, key, t) ==
    LET entry == getCachedEntry(store, key) IN
    IF entry = Null THEN Null
    ELSE IF t - entry.timestamp > CACHE_TTL THEN Null
    ELSE entry.data

getCachedAny(store, key) ==
    LET entry == getCachedEntry(store, key) IN
    IF entry = Null THEN Null ELSE entry.data

\* setCached: the store after the call; setItem may throw (quota), which is swallowed
setCached(store, key, d, t, throws) ==
    IF throws THEN store
    ELSE [store EXCEPT ![key] = JsonStringify(d, t)]

-----------------------------------------------------------------------------
(* CMS Client: block helpers *)

\* A blocks field is an array or not (absent, or any non-array value).
NotArray == [isArray |-> FALSE, items |-> <<>>]
ArrayOf(items) == [isArray |-> TRUE, items |-> items]

Block(type, content) == [type |-> type, content |-> content, images |-> NotArray]
Slideshow(urls) == [type |-> "slideshow", content |-> Undefined, images |-> ArrayOf(urls)]

Min(S) == CHOOSE x \in S : \A y \in S : x <= y

NotFound == [found |-> FALSE]

firstBlockOfType(blocks, type) ==
    IF ~blocks.isArray THEN NotFound
    ELSE LET hits == {i \in 1..Len(blocks.items) : blocks.items[i].type = type} IN
         IF hits = {} THEN NotFound
         ELSE [found |-> TRUE, block |-> blocks.items[Min(hits)]]

\* firstBlockOfType(...)?.content || ''
ContentOrEmpty(fb) == IF fb.found THEN OrElse(fb.block.content, "") ELSE ""

slideshowUrls(block) ==
    IF ~block.images.isArray THEN <<>>
    ELSE SelectSeq(block.images.items, LAMBDA u : Truthy(u))

\* /^(https?:\/\/|mailto:|tel:)/i on the trimmed href, over the hrefs of the fixtures
ExternalHrefs == {"https://a.example", "http://b.example", "mailto:x@y.example", "tel:+100"}
isExternalHref(href) == href \in ExternalHrefs

\* String(x || '').trim(), over the contents of the fixtures
Trim(s) == IF s \in {Undefined, "", "   "} THEN "" ELSE s

\* /(youtube\.com|youtu\.be|vimeo\.com|player\.vimeo\.com)/i, over the contents of the fixtures
StreamingSrcs == {"https://www.youtube.com/watch?v=x", "https://player.vimeo.com/video/1"}
MatchesStreamingHost(src) == src \in StreamingSrcs

-----------------------------------------------------------------------------
(* View-Model Builder *)

RequiredSlugs == <<"landing", "releases", "live", "bio", "contact">>

\* Array.prototype.map
SeqMap(s, F(_)) == [i \in 1..Len(s) |-> F(s[i])]

\* the comparator of every .sort(): (a.order ?? 0) - (b.order ?? 0)
CompareOrder(a, b) == a.order - b.order

\* Array.prototype.sort is stable: x goes after every element that does not compare greater
RECURSIVE InsertSortedBeforeTies(_, _)
InsertSortedBeforeTies(s, x) ==
    IF s = <<>> THEN <<x>>
    ELSE IF CompareOrder(Head(s), x) >= 0 THEN <<x>> \o s
    ELSE <<Head(s)>> \o InsertSortedBeforeTies(Tail(s), x)

RECURSIVE InsertSorted(_, _)
InsertSorted(s, x) ==
    IF s = <<>> THEN <<x>>
    ELSE IF CompareOrder(Head(s), x) > 0 THEN <<x>> \o s
    ELSE <<Head(s)>> \o InsertSorted(Tail(s), x)

RECURSIVE SortByOrder(_)
SortByOrder(s) ==
    IF s = <<>> THEN <<>>
    ELSE InsertSorted(SortByOrder(SubSeq(s, 1, Len(s) - 1)), s[Len(s)])

Ok(v) == [ok |-> TRUE, value |-> v]
Thrown == [ok |-> FALSE]

\* p.blocks, p.title ... on a null post is a TypeError
HasNullPost(posts) == \E i \in 1..Len(posts) : posts[i] = Null

BlocksOf(p) == IF p = Null THEN NotArray ELSE p.blocks

\* lines 130-133: landingPosts[0], landingPost?.blocks
LandingSlidesOf(posts) ==
    LET fb == firstBlockOfType(IF posts = <<>> THEN NotArray ELSE BlocksOf(posts[1]), "slideshow") IN
    Ok(IF fb.found THEN slideshowUrls(fb.block) ELSE <<>>)

ReleaseOf(p) ==
    [href |-> ContentOrEmpty(firstBlockOfType(p.blocks, "link")),
     title |-> p.title,
     image |-> ContentOrEmpty(firstBlockOfType(p.blocks, "image")),
     order |-> Coalesce(p.order, 0)]

ReleaseKeptIfTitle(r) == Truthy(r.title)
ReleaseKept(r) == Truthy(r.href) /\ Truthy(r.title)

ReleasesOf(posts) ==
    IF HasNullPost(posts) THEN Thrown
    ELSE Ok(SortByOrder(SelectSeq(SeqMap(posts, ReleaseOf), ReleaseKept)))

LiveCardOf(p) ==
    [slug |-> p.slug,
     title |-> p.title,
     image |-> ContentOrEmpty(firstBlockOfType(p.blocks, "image")),
     order |-> Coalesce(p.order, 0)]

LiveProjectsOf(posts) ==
    IF HasNullPost(posts) THEN Thrown
    ELSE Ok(SortByOrder(SelectSeq(SeqMap(posts, LiveCardOf), LAMBDA r : Truthy(r.slug))))

NoImages == [present |-> FALSE, urls |-> <<>>]
NoVideo == [type |-> "none"]

SlideshowsOf(blocks) ==
    IF blocks.isArray THEN SelectSeq(blocks.items, LAMBDA b : b.type = "slideshow") ELSE <<>>

VideoOfUntrimmed(p) ==
    LET fb == firstBlockOfType(p.blocks, "video")
        videoSrc == IF fb.found THEN OrElse(fb.block.content, "") ELSE "" IN
    IF videoSrc = "" THEN NoVideo
    ELSE IF MatchesStreamingHost(videoSrc)
         THEN [type |-> "iframe", src |-> videoSrc, title |-> p.title]
         ELSE [type |-> "video", src |-> videoSrc, title |-> p.title]

VideoOf(p) ==
    LET fb == firstBlockOfType(p.blocks, "video")
        videoSrc == Trim(IF fb.found THEN OrElse(fb.block.content, "") ELSE "") IN
    IF videoSrc = "" THEN NoVideo
    ELSE IF MatchesStreamingHost(videoSrc)
         THEN [type |-> "iframe", src |-> videoSrc, title |-> p.title]
         ELSE [type |-> "video", src |-> videoSrc, title |-> p.title]

LiveDetailOf(p) ==
    LET slideshows == SlideshowsOf(p.blocks) IN
    [title |-> OrElse(p.title, p.slug),
     video |-> VideoOf(p),
     primaryImages |-> IF Len(slideshows) >= 1
                       THEN [present |-> TRUE, urls |-> slideshowUrls(slideshows[1])]
                       ELSE NoImages,
     secondaryImages |-> IF Len(slideshows) >= 2
                         THEN [present |-> TRUE, urls |-> slideshowUrls(slideshows[2])]
                         ELSE NoImages]

\* acc[p.slug]: an undefined slug is the property name "undefined"
PropertyKey(slug) == IF slug = Undefined THEN "undefined" ELSE slug

RECURSIVE LiveDetailReduce(_, _)
LiveDetailReduce(acc, posts) ==
    IF posts = <<>> THEN acc
    ELSE LET p == Head(posts)
             k == PropertyKey(p.slug)
             next == [x \in DOMAIN acc \cup {k} |-> IF x = k THEN LiveDetailOf(p) ELSE acc[x]]
         IN LiveDetailReduce(next, Tail(posts))

EmptyObject == [x \in {} |-> NoVideo]

LiveDetailMapOfFirstPost(posts) ==
    IF HasNullPost(posts) THEN Thrown
    ELSE Ok(LiveDetailReduce(EmptyObject, IF posts = <<>> THEN <<>> ELSE <<Head(posts)>>))

LiveDetailMapOf(posts) ==
    IF HasNullPost(posts) THEN Thrown ELSE Ok(LiveDetailReduce(EmptyObject, posts))

BioSectionOf(p) ==
    [order |-> Coalesce(p.order, 0),
     title |-> p.title,
     html |-> ContentOrEmpty(firstBlockOfType(p.blocks, "text"))]

BioSectionsOf(posts) ==
    IF HasNullPost(posts) THEN Thrown
    ELSE Ok(SortByOrder(SelectSeq(SeqMap(posts, BioSectionOf), LAMBDA s : Truthy(s.title))))

ContactLinkOf(p) ==
    LET href == ContentOrEmpty(firstBlockOfType(p.blocks, "link")) IN
    [order |-> Coalesce(p.order, 0), label |-> p.title, href |-> href,
     is_external |-> isExternalHref(href)]

ContactKept(l) == Truthy(l.label) /\ Truthy(l.href)

ContactLinksOf(posts) ==
    IF HasNullPost(posts) THEN Thrown
    ELSE Ok(SortByOrder(SelectSeq(SeqMap(posts, ContactLinkOf), ContactKept)))

\* lines 101-102: bySlug[s.slug] = s for every section with a slug; a later section wins
BySlug(sections) ==
    LET items == IF sections.isArray THEN sections.items ELSE <<>>
        slugs == {items[i].slug : i \in 1..Len(items)} \ {Undefined, ""}
        LastIdx(g) == CHOOSE i \in 1..Len(items) :
                         /\ items[i].slug = g
                         /\ \A j \in 1..Len(items) : items[j].slug = g => j <= i
    IN [g \in slugs |-> items[LastIdx(g)]]

\* lines 104-115: the five requireSection calls, all before the first posts request
RequireLandingOnly(bySlug) == "landing" \in DOMAIN bySlug
RequireSections(bySlug) == \A i \in 1..Len(RequiredSlugs) : RequiredSlugs[i] \in DOMAIN bySlug

\* lines 117-127: fetchPosts(section.id) of a successful response; reading .id of a
\* section that is not there is a TypeError
fetchPosts(c, slug) ==
    LET bySlug == BySlug(c.sections) IN
    IF slug \notin DOMAIN bySlug THEN Thrown
    ELSE LET data == c.posts[bySlug[slug].id] IN
         Ok(IF data.hasPosts THEN data.posts ELSE <<>>)      \* data.posts || []

PostsOf(c, slug) == fetchPosts(c, slug).value

\* what the build computes from one posts response, before the next request
StageThrows(c, slug) ==
    LET posts == PostsOf(c, slug) IN
    CASE slug = "landing" -> ~LandingSlidesOf(posts).ok
      [] slug = "releases" -> ~ReleasesOf(posts).ok
      [] slug = "live" -> ~LiveProjectsOf(posts).ok \/ ~LiveDetailMapOf(posts).ok
      [] slug = "bio" -> ~BioSectionsOf(posts).ok
      [] slug = "contact" -> ~ContactLinksOf(posts).ok

\* line 198: the bundle of a build in which nothing threw
BundleOf(c) ==
    [landingSlides |-> LandingSlidesOf(PostsOf(c, "landing")).value,
     releases |-> ReleasesOf(PostsOf(c, "releases")).value,
     liveProjects |-> LiveProjectsOf(PostsOf(c, "live")).value,
     liveDetailMap |-> LiveDetailMapOf(PostsOf(c, "live")).value,
     bioSections |-> BioSectionsOf(PostsOf(c, "bio")).value,
     contactLinks |-> ContactLinksOf(PostsOf(c, "contact")).value]

\* buildDataFromCms when every request is answered with success
buildDataFromCms(c) ==
    IF ~c.sections.isArray THEN Thrown                    \* sections.forEach is not a function
    ELSE IF ~RequireSections(BySlug(c.sections)) THEN Thrown
    ELSE IF \E i \in 1..Len(RequiredSlugs) :
                \/ ~fetchPosts(c, RequiredSlugs[i]).ok
                \/ StageThrows(c, RequiredSlugs[i])
         THEN Thrown
    ELSE Ok(BundleOf(c))

-----------------------------------------------------------------------------
(* Fixtures: the content a CMS serves *)

Post(title, slug, order, blocks) == [title |-> title, slug |-> slug, order |-> order, blocks |-> blocks]

PostsData(posts) == [hasPosts |-> TRUE, posts |-> posts]

AllSections == ArrayOf(<<[id |-> 1, slug |-> "landing"], [id |-> 2, slug |-> "releases"],
                         [id |-> 3, slug |-> "live"], [id |-> 4, slug |-> "bio"],
                         [id |-> 5, slug |-> "contact"]>>)

SectionIdOf(slug) == CHOOSE i \in 1..Len(RequiredSlugs) : RequiredSlugs[i] = slug

\* one post with one block in every section
FixtureA ==
    [sections |-> AllSections,
     posts |-> <<PostsData(<<Post("Home", "home", <<0>>, ArrayOf(<<Slideshow(<<"/img/l1.jpg">>)>>))>>),
                 PostsData(<<Post("R1", "r1", <<1>>,
                                  ArrayOf(<<Block("image", "/img/r1.jpg"), Block("link", "https://a.example")>>))>>),
                 PostsData(<<Post("Live 1", "p1", <<0>>, ArrayOf(<<Block("image", "/img/p1.jpg")>>))>>),
                 PostsData(<<Post("Bio", "bio", <<0>>, ArrayOf(<<Block("text", "<p>bio</p>")>>))>>),
                 PostsData(<<Post("Mail", "mail", <<0>>, ArrayOf(<<Block("link", "mailto:x@y.example")>>))>>)>>]

\* other content: two releases out of order, a live post with a video and two slideshows
FixtureB ==
    [sections |-> AllSections,
     posts |-> <<PostsData(<<Post("Home", "home", <<>>, ArrayOf(<<Slideshow(<<"/img/l2.jpg", "/img/l3.jpg">>)>>))>>),
                 PostsData(<<Post("R2", "r2", <<1>>, ArrayOf(<<Block("link", "http://b.example")>>)),
                             Post("R3", "r3", <<0>>,
                                  ArrayOf(<<Block("image", "/img/r3.jpg"), Block("link", "https://a.example")>>))>>),
                 PostsData(<<Post("Live 2", "p2", <<1>>,
                                  ArrayOf(<<Block("video", "https://www.youtube.com/watch?v=x"),
                                            Slideshow(<<"/img/s1.jpg">>), Slideshow(<<>>)>>))>>),
                 [hasPosts |-> FALSE, posts |-> <<>>],
                 PostsData(<<Post("Top", "top", <<0>>, ArrayOf(<<Block("link", "#top")>>))>>)>>]

\* the contact section is missing
FixtureNoContact == [FixtureA EXCEPT !.sections = ArrayOf(SubSeq(AllSections.items, 1, 4))]

\* the landing section is missing
FixtureNoLanding == [FixtureA EXCEPT !.sections = ArrayOf(SubSeq(AllSections.items, 2, 5))]

\* a null entry among the bio posts: the build throws after three posts responses
FixtureNullBio == [FixtureA EXCEPT !.posts[4] = PostsData(<<Null>>)]

AppFixtures == {FixtureA, FixtureB, FixtureNoContact, FixtureNoLanding, FixtureNullBio}

\* the bundles an earlier session of the app may have left in the cache
CacheData == {BundleOf(FixtureA), BundleOf(FixtureB)}

-----------------------------------------------------------------------------
(* Bootstrap Orchestrator: App and its mount effect *)

\* the sampled instants of Date.now()
TimePoints == {0, 1, CACHE_TTL, CACHE_TTL + 1, CACHE_TTL + 2}

\* StrictMode runs the mount effect twice in a development build, once in production
Runs == {1, 2}
MountedRuns(strict) == IF strict THEN {1, 2} ELSE {1}

IdleRun == [pc |-> "idle", cached |-> Null, reqs |-> <<>>, getItems |-> 0, setItems |-> 0]

\* lines 664-670: the useState initial values
InitialView ==
    [landingSlides |-> <<>>, releases |-> <<>>, liveProjects |-> <<>>, liveDetailMap |-> EmptyObject,
     bioSections |-> <<>>, contactLinks |-> <<>>, dataLoaded |-> FALSE]

\* the props of the routes in the current render
View ==
    [landingSlides |-> landingSlides, releases |-> releases, liveProjects |-> liveProjects,
     liveDetailMap |-> liveDetailMap, bioSections |-> bioSections, contactLinks |-> contactLinks,
     dataLoaded |-> dataLoaded]

NotPainted == [painted |-> FALSE]

Bundle ==
    [landingSlides |-> landingSlides, releases |-> releases, liveProjects |-> liveProjects,
     liveDetailMap |-> liveDetailMap, bioSections |-> bioSections, contactLinks |-> contactLinks]

\* lines 680-685 and 694-699: the six setters
SetStatesButContact(d) ==
    /\ landingSlides' = d.landingSlides
    /\ releases' = d.releases
    /\ liveProjects' = d.liveProjects
    /\ liveDetailMap' = d.liveDetailMap
    /\ bioSections' = d.bioSections
    /\ UNCHANGED contactLinks
SetStates(d) ==
    /\ landingSlides' = d.landingSlides
    /\ releases' = d.releases
    /\ liveProjects' = d.liveProjects
    /\ liveDetailMap' = d.liveDetailMap
    /\ bioSections' = d.bioSections
    /\ contactLinks' = d.contactLinks

\* the step taken, by which run, why, and the storage and states it started from
Event(type, r, why) ==
    [type |-> type, run |-> r, why |-> why, store |-> sessionStorage, bundle |-> Bundle,
     loaded |-> dataLoaded]

NoSet == [called |-> Null, stored |-> Null]

\* the stored strings another session, or anything else, may have left under a key
StoredItems(t) ==
    {MissingItem, EmptyItem, GarbageItem}
        \cup {JsonItem(d, <<>>) : d \in CacheData}
        \cup {JsonItem(d, <<t0>>) : d \in CacheData, t0 \in {x \in TimePoints : x <= t}}

builderIdle == section = "none" /\ built = Null

\* no index update is under way
indexIdle == component = "none" /\ updates = <<>> /\ expected = 0 /\ effects = {}

\* no scramble element is on the page
scrambleIdle ==
    /\ text = <<>> /\ elMounted = FALSE /\ observing = FALSE /\ isVisible = FALSE
    /\ delayTimers = 0 /\ isAnimating = FALSE /\ queue = <<>> /\ frame = 0
    /\ frameRequests = 0 /\ output = <<>> /\ calls = 0

\* generate_bootstrap.mjs 8-9: the destination of the snapshot and its temp file
outPath == "public/posts_bootstrap.json"
tmpPathIsOutPath == "public/posts_bootstrap.json"
tmpPath == "public/posts_bootstrap.json.tmp"
Paths == {outPath, tmpPath}

\* a file: absent, cut short by a failed write, or holding a JSON text
NoFile == [kind |-> "absent"]
PartialFile == [kind |-> "partial"]

IdleScript == [pc |-> "idle", content |-> Null, exit |-> <<>>, before |-> NoFile]

\* the build script is not running
scriptIdle == fs = [p \in Paths |-> NoFile] /\ script = IdleScript

\* no detail route is open
NoRoute == [slug |-> "", redirected |-> FALSE]
routeIdle == route = NoRoute

restIdle == indexIdle /\ scrambleIdle /\ scriptIdle /\ routeIdle

\* no slider is on the page
sliderIdle ==
    /\ images = NotArray /\ intervalMs = 0 /\ sliderMounted = FALSE
    /\ files = <<>> /\ index = 0 /\ lastManualNavigation = 0 /\ autoPlayPaused = FALSE
    /\ timeoutId = <<>> /\ timers = <<>>

InitApp ==
    /\ cms \in AppFixtures
    /\ now = CACHE_TTL + 1
    /\ \E item \in StoredItems(now) :
           sessionStorage = [k \in Keys |-> IF k = BOOTSTRAP_CACHE_KEY THEN item ELSE MissingItem]
    /\ landingSlides = <<>> /\ releases = <<>> /\ liveProjects = <<>>
    /\ liveDetailMap = EmptyObject /\ bioSections = <<>> /\ contactLinks = <<>>
    /\ dataLoaded = FALSE
    /\ load = [r \in Runs |-> IdleRun]
    /\ effectPending = TRUE
    /\ strictMode \in BOOLEAN
    /\ painted = NotPainted
    /\ lastEvent = Event("init", 0, "")
    /\ lastSet = [k \in Keys |-> NoSet]
    /\ builderIdle
    /\ sliderIdle
    /\ restIdle

\* lines 673-691: one load() call up to its first await: the cache read, and the
\* sections request that buildDataFromCms issues in the same turn
StartedRunSkipsWhenCached(cached) ==
    IF cached # Null
    THEN [pc |-> "done", cached |-> cached, reqs |-> <<>>, getItems |-> 1, setItems |-> 0]
    ELSE [pc |-> "sections", cached |-> cached, reqs |-> <<"sections">>, getItems |-> 1, setItems |-> 0]
StartedRun(cached) ==
    [pc |-> "sections", cached |-> cached, reqs |-> <<"sections">>, getItems |-> 1, setItems |-> 0]

\* lines 672-710: the mount effect: load() once, twice under StrictMode
MountEffect ==
    /\ effectPending
    /\ effectPending' = FALSE
    /\ LET cached == getCachedFresh(sessionStorage, BOOTSTRAP_CACHE_KEY, now) IN
       /\ IF cached # Null
          THEN SetStates(cached) /\ dataLoaded' = TRUE
          ELSE UNCHANGED <<appState, dataLoaded>>
       /\ load' = [r \in Runs |-> IF r \in MountedRuns(strictMode) THEN StartedRun(cached) ELSE IdleRun]
    /\ lastEvent' = Event("mountEffect", 0, "")
    /\ UNCHANGED <<sliderState, restState, cms, sessionStorage, now, strictMode, painted, lastSet, section, built>>

Awaiting(r) == load[r].pc \in {"sections", "landing", "releases", "live", "bio", "contact"}

\* lines 702-706: the catch of load()
CatchKeepsLoaded(r, why) ==
    /\ load' = [load EXCEPT ![r].pc = "failed"]
    /\ UNCHANGED dataLoaded
    /\ lastEvent' = Event("failure", r, why)
    /\ UNCHANGED <<sliderState, restState, cms, sessionStorage, now, appState, effectPending, strictMode, painted, lastSet,
                   section, built>>
Catch(r, why) ==
    /\ load' = [load EXCEPT ![r].pc = "failed"]
    /\ dataLoaded' = IF load[r].cached = Null THEN FALSE ELSE dataLoaded
    /\ lastEvent' = Event("failure", r, why)
    /\ UNCHANGED <<sliderState, restState, cms, sessionStorage, now, appState, effectPending, strictMode, painted, lastSet,
                   section, built>>

\* line 79, or fetch rejecting: the request a run awaits fails
FetchFails(r) ==
    /\ Awaiting(r)
    /\ Catch(r, "fetch")

\* the next posts request of the build, or the TypeError of reading .id of no section
Request(r, slug) ==
    IF fetchPosts(cms, slug).ok
    THEN /\ load' = [load EXCEPT ![r].pc = slug, ![r].reqs = Append(@, slug)]
         /\ lastEvent' = Event("request", r, "")
         /\ UNCHANGED <<sliderState, restState, cms, sessionStorage, now, appState, dataLoaded, effectPending, strictMode,
                        painted, lastSet, section, built>>
    ELSE Catch(r, "TypeError")

\* lines 100-130: the sections response
SectionsResponse(r) ==
    /\ load[r].pc = "sections"
    /\ IF cms.sections.isArray /\ RequireSections(BySlug(cms.sections))
       THEN Request(r, "landing")
       ELSE Catch(r, "Missing section")

NextSlug(slug) == RequiredSlugs[SectionIdOf(slug) + 1]

\* lines 45-51: setItem throwing (quota) never leaves setCached
setCachedRaisesOnQuota(throws) == throws
setCachedRaises(throws) == FALSE

\* lines 692-701: the build returned: the cache write, the six setters, the loaded flag
CommitWithoutWrite(r, data, throws) ==
    /\ UNCHANGED <<sessionStorage, lastSet>>
    /\ SetStates(data)
    /\ dataLoaded' = TRUE
    /\ load' = [load EXCEPT ![r].pc = "done"]
    /\ lastEvent' = Event("success", r, IF throws THEN "quota" ELSE "")
    /\ UNCHANGED <<sliderState, restState, cms, now, effectPending, strictMode, painted, section, built>>
Commit(r, data, throws) ==
    /\ sessionStorage' = setCached(sessionStorage, BOOTSTRAP_CACHE_KEY, data, now, throws)
    /\ lastSet' = [lastSet EXCEPT ![BOOTSTRAP_CACHE_KEY] =
                      [called |-> [data |-> data, at |-> now],
                       stored |-> IF throws THEN @.stored ELSE [data |-> data, at |-> now]]]
    /\ SetStates(data)
    /\ dataLoaded' = TRUE
    /\ load' = [load EXCEPT ![r].pc = "done", ![r].setItems = @ + 1]
    /\ lastEvent' = Event("success", r, IF throws THEN "quota" ELSE "")
    /\ UNCHANGED <<sliderState, restState, cms, now, effectPending, strictMode, painted, section, built>>

Success(r, data, throws) ==
    IF setCachedRaises(throws) THEN Catch(r, "quota") ELSE Commit(r, data, throws)

\* lines 130-198: a posts response: the section's view model, then the next request
\* or the return of the bundle
PostsResponse(r) ==
    /\ load[r].pc \in {"landing", "releases", "live", "bio", "contact"}
    /\ LET slug == load[r].pc IN
       IF StageThrows(cms, slug) THEN Catch(r, "TypeError")
       ELSE IF slug = "contact" THEN \E throws \in BOOLEAN : Success(r, BundleOf(cms), throws)
       ELSE Request(r, NextSlug(slug))

\* the browser paints the current render
Paint ==
    /\ painted # View
    /\ painted' = View
    /\ lastEvent' = Event("paint", 0, "")
    /\ UNCHANGED <<sliderState, restState, cms, sessionStorage, now, appState, dataLoaded, load, effectPending, strictMode,
                   lastSet, section, built>>

Tick ==
    /\ \E t \in TimePoints : t > now /\ now' = t
    /\ lastEvent' = Event("tick", 0, "")
    /\ UNCHANGED <<sliderState, restState, cms, sessionStorage, appState, dataLoaded, load, effectPending, strictMode,
                   painted, lastSet, section, built>>

NextApp ==
    \/ MountEffect
    \/ \E r \in Runs : SectionsResponse(r)
    \/ \E r \in Runs : PostsResponse(r)
    \/ \E r \in Runs : FetchFails(r)
    \/ Paint
    \/ Tick

Spec == InitApp /\ [][NextApp]_vars

-----------------------------------------------------------------------------
(* Claims on the bootstrap orchestrator *)

Started(r) == load[r].pc # "idle"

StoredBundle == getCachedAny(sessionStorage, BOOTSTRAP_CACHE_KEY)

RefreshAlwaysIssued ==
    \A r \in Runs : Started(r) => (Len(load[r].reqs) >= 1 /\ load[r].reqs[1] = "sections")

\* C1 (as stated): every load() issues the refresh, and after a successful build the six
\* states, the loaded flag and the cache entry under the bootstrap key all hold the new bundle.
C1_CacheAlwaysOverwritten ==
    /\ RefreshAlwaysIssued
    /\ lastEvent.type = "success" =>
           /\ Bundle = BundleOf(cms)
           /\ dataLoaded
           /\ StoredBundle = BundleOf(cms)

\* C1 (amended): every load() issues the refresh whether or not the cache hydrated the UI, and
\* after a successful build the six states hold the new bundle and the loaded flag is true
\* whatever the cache held; the cache entry holds the new bundle, stamped now, unless the
\* storage write threw, and then it is what it was.
C1_RefreshOverwritesStates ==
    /\ RefreshAlwaysIssued
    /\ lastEvent.type = "success" =>
           /\ Bundle = BundleOf(cms)
           /\ dataLoaded
           /\ IF lastEvent.why = "quota"
              THEN sessionStorage = lastEvent.store
              ELSE getCachedEntry(sessionStorage, BOOTSTRAP_CACHE_KEY)
                       = [data |-> BundleOf(cms), timestamp |-> now]

\* a refresh succeeded after the UI was hydrated from a cache entry holding another bundle
C1_Witness ==
    /\ lastEvent.type = "success"
    /\ lastEvent.why = ""
    /\ load[lastEvent.run].cached # Null
    /\ load[lastEvent.run].cached # BundleOf(cms)
    /\ lastEvent.bundle = load[lastEvent.run].cached
    /\ StoredBundle = Bundle

\* C2: when the refresh fails and the bootstrap key holds an entry, stale or not, the six
\* states hold that entry's bundle and the page is shown as loaded.
C2_FailureFallsBackToAnyCache ==
    (lastEvent.type = "failure" /\ StoredBundle # Null) =>
        (Bundle = StoredBundle /\ dataLoaded)

AllMountedFailed ==
    /\ ~effectPending
    /\ \A r \in MountedRuns(strictMode) : load[r].pc = "failed"

BadItem(item) ==
    \/ item.kind \in {"missing", "empty", "garbage"}
    \/ item.kind = "json" /\ item.timestamp = <<>>

\* C5: a missing, empty, unparsable or timestamp-malformed entry reads as null and load()
\* goes on to the refresh; a cache write that throws during a successful refresh leaves the
\* stored entry as it was, and the six states and the loaded flag are still set from the bundle.
C5_StorageErrorsNotFatal ==
    /\ (lastEvent.type = "mountEffect" /\ BadItem(lastEvent.store[BOOTSTRAP_CACHE_KEY])) =>
           /\ getCachedEntry(lastEvent.store, BOOTSTRAP_CACHE_KEY) = Null
           /\ \A r \in MountedRuns(strictMode) :
                  load[r].cached = Null /\ load[r].pc = "sections"
           /\ View = InitialView
    /\ (lastEvent.type \in {"success", "failure"} /\ lastEvent.why = "quota") =>
           /\ lastEvent.type = "success"
           /\ sessionStorage = lastEvent.store
           /\ Bundle = BundleOf(cms)
           /\ dataLoaded
           /\ load[lastEvent.run].pc = "done"

\* the write threw in a refresh that followed a load with an unparsable entry
C5_Witness ==
    /\ lastEvent.type = "success"
    /\ lastEvent.why = "quota"
    /\ sessionStorage[BOOTSTRAP_CACHE_KEY] = GarbageItem
    /\ ~lastEvent.loaded
    /\ dataLoaded

FreshAtMount ==
    IF effectPending
    THEN getCachedFresh(sessionStorage, BOOTSTRAP_CACHE_KEY, now) # Null
    ELSE load[1].cached # Null

\* C6: with a fresh entry under the bootstrap key at mount time, the browser never shows the
\* render of the empty initial states.
C6_NeverPaintedEmpty ==
    FreshAtMount => painted # InitialView

SectionMissing ==
    \E g \in {"landing", "releases", "live", "bio", "contact"} :
        \A i \in 1..Len(cms.sections.items) : cms.sections.items[i].slug # g

\* C8: when a required section slug is absent from the sections response, the build throws
\* before any posts request; load() catches it, and the cache and the six states are left alone.
C8_MissingSectionAbortsBuild ==
    SectionMissing =>
        /\ \A r \in Runs : load[r].pc \in {"idle", "sections", "failed"}
        /\ \A r \in Runs : Started(r) => load[r].reqs = <<"sections">>
        /\ lastEvent.type = "failure" =>
               (sessionStorage = lastEvent.store /\ Bundle = lastEvent.bundle)
        /\ lastEvent.type # "success"

\* the sections response lacked a slug, after the UI was hydrated from the cache
C8_Witness ==
    /\ SectionMissing
    /\ lastEvent.type = "failure"
    /\ lastEvent.why = "Missing section"
    /\ load[lastEvent.run].cached # Null
    /\ Bundle = load[lastEvent.run].cached
    /\ dataLoaded

-----------------------------------------------------------------------------
(* Cache Store alone: calls of setCached, getCachedFresh and getCachedAny on any key *)

InitCache ==
    /\ cms = FixtureA
    /\ now = 0
    /\ sessionStorage \in [Keys -> StoredItems(0)]
    /\ landingSlides = <<>> /\ releases = <<>> /\ liveProjects = <<>>
    /\ liveDetailMap = EmptyObject /\ bioSections = <<>> /\ contactLinks = <<>>
    /\ dataLoaded = FALSE
    /\ load = [r \in Runs |-> IdleRun]
    /\ effectPending = FALSE
    /\ strictMode = FALSE
    /\ painted = NotPainted
    /\ lastEvent = Event("init", 0, "")
    /\ lastSet = [k \in Keys |-> NoSet]
    /\ builderIdle
    /\ sliderIdle
    /\ restIdle

\* setCached(k, d) at the current time
CacheSet(k, d, throws) ==
    /\ sessionStorage' = setCached(sessionStorage, k, d, now, throws)
    /\ lastSet' = [lastSet EXCEPT ![k] =
                      [called |-> [data |-> d, at |-> now],
                       stored |-> IF throws THEN @.stored ELSE [data |-> d, at |-> now]]]
    /\ lastEvent' = [type |-> "set", key |-> k]
    /\ UNCHANGED <<sliderState, restState, cms, now, appState, dataLoaded, load, effectPending, strictMode, painted,
                   section, built>>

\* getCachedEntry(k), getCachedFresh(k) and getCachedAny(k) at the current time
CacheGet(k) ==
    /\ lastEvent' = [type |-> "get", key |-> k,
                     entry |-> getCachedEntry(sessionStorage, k),
                     fresh |-> getCachedFresh(sessionStorage, k, now),
                     any |-> getCachedAny(sessionStorage, k)]
    /\ UNCHANGED <<sliderState, restState, cms, sessionStorage, now, appState, dataLoaded, load, effectPending, strictMode,
                   painted, lastSet, section, built>>

NextCache ==
    \/ \E k \in Keys, d \in CacheData, throws \in BOOLEAN : CacheSet(k, d, throws)
    \/ \E k \in Keys : CacheGet(k)
    \/ Tick

SpecCache == InitCache /\ [][NextCache]_vars

\* what the reads of key k return when the entry on k is d, written at t0
ReadsReturn(d, t0) ==
    /\ lastEvent.fresh = (IF now - t0 <= 60000 THEN d ELSE Null)
    /\ lastEvent.any = d

\* C4 (as stated): after setCached(k, d) at t0, getCachedFresh(k) returns d exactly while
\* now - t0 <= 60000 and null later, and getCachedAny(k) returns d, until k is set again.
C4_EverySetIsReadBack ==
    lastEvent.type = "get" =>
        LET call == lastSet[lastEvent.key].called IN
        call # Null => ReadsReturn(call.data, call.at)

\* C4 (amended): after a setCached(k, d) at t0 whose storage write did not throw,
\* getCachedFresh(k) returns d exactly while now - t0 <= 60000 (the boundary included) and null
\* later, and getCachedAny(k) returns d at every later time, until a later setCached on k
\* writes the key again.
C4_FreshWithinTtl ==
    lastEvent.type = "get" =>
        LET write == lastSet[lastEvent.key].stored IN
        write # Null => ReadsReturn(write.data, write.at)

\* a read exactly 60000 ms after the write returns the data
C4_WitnessBoundary ==
    /\ lastEvent.type = "get"
    /\ lastSet[lastEvent.key].stored # Null
    /\ now - lastSet[lastEvent.key].stored.at = 60000
    /\ lastEvent.fresh = lastSet[lastEvent.key].stored.data
    /\ lastEvent.fresh \in CacheData

-----------------------------------------------------------------------------
(* View-Model Builder alone: buildDataFromCms on the posts of one section *)

PostOrders == {<<>>, <<-1>>, <<0>>, <<1>>}

SlugFor(title) == IF title = "T1" THEN "t1" ELSE "t2"

WellFormedBlocks(slug) ==
    CASE slug = "landing" -> ArrayOf(<<Slideshow(<<"/img/l1.jpg", Undefined, "/img/l2.jpg">>)>>)
      [] slug = "releases" -> ArrayOf(<<Block("image", "/img/r.jpg"), Block("link", "https://a.example")>>)
      [] slug = "live" -> ArrayOf(<<Block("image", "/img/p.jpg")>>)
      [] slug = "bio" -> ArrayOf(<<Block("text", "<p>bio</p>")>>)
      [] slug = "contact" -> ArrayOf(<<Block("link", "mailto:x@y.example")>>)

\* the blocks a post of the section may carry instead
OtherBlocks(slug) ==
    CASE slug = "landing" -> {ArrayOf(<<Block("image", "/img/x.jpg"), Slideshow(<<>>), Slideshow(<<"/img/l3.jpg">>)>>)}
      [] slug = "releases" -> {ArrayOf(<<Block("link", "http://b.example")>>),
                               ArrayOf(<<Block("image", "/img/r.jpg")>>),
                               ArrayOf(<<Block("image", "/img/r.jpg"), Block("link", "")>>)}
      [] slug = "live" -> {ArrayOf(<<Block("video", "https://www.youtube.com/watch?v=x"),
                                     Slideshow(<<"/img/s1.jpg">>), Slideshow(<<>>)>>),
                           ArrayOf(<<Block("video", "/videos/clip.mp4"), Block("video", "   ")>>),
                           ArrayOf(<<Block("video", "   "), Block("video", "https://player.vimeo.com/video/1")>>)}
      [] slug = "bio" -> {ArrayOf(<<Block("image", "/img/b.jpg")>>)}
      [] slug = "contact" -> {ArrayOf(<<Block("text", "hello")>>),
                              ArrayOf(<<Block("link", ""), Block("link", "#top")>>),
                              ArrayOf(<<Block("link", "/bio")>>)}

PostPool(slug) ==
    {Post(t, SlugFor(t), o, WellFormedBlocks(slug)) : t \in {"T1", "T2"}, o \in PostOrders}
        \cup {Post("T1", "t1", <<0>>, b) : b \in OtherBlocks(slug)}
        \cup {Post("T2", "t2", <<>>, NotArray), Post("", "", <<0>>, WellFormedBlocks(slug)),
              Post(Undefined, Undefined, <<>>, WellFormedBlocks(slug)), Null}

BoundedSeqs(S, n) == UNION {[1..k -> S] : k \in 0..n}

InitBuilder ==
    /\ section \in {RequiredSlugs[i] : i \in 1..Len(RequiredSlugs)}
    /\ \E posts \in BoundedSeqs(PostPool(section), MaxPosts) :
           cms = [FixtureA EXCEPT !.posts[SectionIdOf(section)] = PostsData(posts)]
    /\ built = Null
    /\ sliderIdle
    /\ restIdle
    /\ now = 0
    /\ sessionStorage = [k \in Keys |-> MissingItem]
    /\ landingSlides = <<>> /\ releases = <<>> /\ liveProjects = <<>>
    /\ liveDetailMap = EmptyObject /\ bioSections = <<>> /\ contactLinks = <<>>
    /\ dataLoaded = FALSE
    /\ load = [r \in Runs |-> IdleRun]
    /\ effectPending = FALSE
    /\ strictMode = FALSE
    /\ painted = NotPainted
    /\ lastEvent = Event("init", 0, "")
    /\ lastSet = [k \in Keys |-> NoSet]

\* lines 93-199 with every request answered
BuildData ==
    /\ built = Null
    /\ built' = buildDataFromCms(cms)
    /\ lastEvent' = Event("build", 0, "")
    /\ UNCHANGED <<sliderState, restState, cms, sessionStorage, now, appState, dataLoaded, load, effectPending, strictMode,
                   painted, lastSet, section>>

NextBuilder == BuildData

SpecBuilder == InitBuilder /\ [][NextBuilder]_vars

Built == built # Null /\ built.ok

\* the posts of a section that are kept, as view models, in the order of the posts list
KeptReleases == SelectSeq(SeqMap(PostsOf(cms, "releases"), ReleaseOf), LAMBDA r : Truthy(r.href) /\ Truthy(r.title))
KeptLive == SelectSeq(SeqMap(PostsOf(cms, "live"), LiveCardOf), LAMBDA r : Truthy(r.slug))
KeptBio == SelectSeq(SeqMap(PostsOf(cms, "bio"), BioSectionOf), LAMBDA r : Truthy(r.title))
KeptContact == SelectSeq(SeqMap(PostsOf(cms, "contact"), ContactLinkOf), LAMBDA l : Truthy(l.label) /\ Truthy(l.href))

RECURSIVE ByOrderBuckets(_, _)
ByOrderBuckets(kept, orders) ==
    IF orders = {} THEN <<>>
    ELSE LET o == Min(orders) IN
         SelectSeq(kept, LAMBDA x : x.order = o) \o ByOrderBuckets(kept, orders \ {o})

\* out is kept, ascending by order, posts of equal order in their order in kept
StablyOrdered(kept, out) ==
    /\ \A i, j \in 1..Len(out) : i < j => out[i].order <= out[j].order
    /\ out = ByOrderBuckets(kept, {kept[i].order : i \in 1..Len(kept)})

\* the view model of a post without order has order 0
MissingOrderIsZero(slug, ViewOf(_)) ==
    LET posts == PostsOf(cms, slug) IN
    \A i \in 1..Len(posts) : posts[i].order = <<>> => ViewOf(posts[i]).order = 0

\* C9: releases, liveProjects, bioSections and contactLinks are each ascending by order, a
\* missing order counting as 0, and kept posts of equal order keep their input order.
C9_SortedStable ==
    Built =>
        /\ StablyOrdered(KeptReleases, built.value.releases)
        /\ StablyOrdered(KeptLive, built.value.liveProjects)
        /\ StablyOrdered(KeptBio, built.value.bioSections)
        /\ StablyOrdered(KeptContact, built.value.contactLinks)
        /\ MissingOrderIsZero("releases", ReleaseOf)
        /\ MissingOrderIsZero("live", LiveCardOf)
        /\ MissingOrderIsZero("bio", BioSectionOf)
        /\ MissingOrderIsZero("contact", ContactLinkOf)

\* posts of order 1, none, 1: the post without order goes first, the two others keep their order
C9_Witness ==
    /\ Built
    /\ section = "contact"
    /\ LET posts == PostsOf(cms, "contact")
           out == built.value.contactLinks IN
       /\ Len(posts) = 3 /\ Len(out) = 3
       /\ posts[1].order = <<1>> /\ posts[2].order = <<>> /\ posts[3].order = <<1>>
       /\ posts[1].title # posts[3].title
       /\ out = <<ContactLinkOf(posts[2]), ContactLinkOf(posts[1]), ContactLinkOf(posts[3])>>

HasBlock(p, type) == p.blocks.isArray /\ \E i \in 1..Len(p.blocks.items) : p.blocks.items[i].type = type

\* the post at i leaves no trace in the view model: the build without it gives the same list
ReleaseAbsent(i) ==
    ReleasesOf(RemoveAt(PostsOf(cms, "releases"), i)).value = built.value.releases
ContactAbsent(i) ==
    ContactLinksOf(RemoveAt(PostsOf(cms, "contact"), i)).value = built.value.contactLinks

\* C10 (as stated): a release post without an image block, or without a link block, is not
\* in releases; a contact post without a link block is not in contactLinks.
C10_ImageAndLinkRequired ==
    Built =>
        /\ \A i \in 1..Len(PostsOf(cms, "releases")) :
               LET p == PostsOf(cms, "releases")[i] IN
               (~HasBlock(p, "image") \/ ~HasBlock(p, "link")) => ReleaseAbsent(i)
        /\ \A i \in 1..Len(PostsOf(cms, "contact")) :
               ~HasBlock(PostsOf(cms, "contact")[i], "link") => ContactAbsent(i)

\* C10 (amended): a release post without a link block is not in releases, while a post with
\* a title and a link but no image block is in releases, with an empty image; a contact post
\* without a link block is not in contactLinks.
C10_LinkRequired ==
    Built =>
        /\ \A i \in 1..Len(PostsOf(cms, "releases")) :
               LET p == PostsOf(cms, "releases")[i] IN
               /\ ~HasBlock(p, "link") => ReleaseAbsent(i)
               /\ (~HasBlock(p, "image") /\ Truthy(p.title)
                      /\ Truthy(ContentOrEmpty(firstBlockOfType(p.blocks, "link")))) =>
                      \E j \in 1..Len(built.value.releases) :
                          built.value.releases[j] =
                              [href |-> ContentOrEmpty(firstBlockOfType(p.blocks, "link")),
                               title |-> p.title, image |-> "", order |-> Coalesce(p.order, 0)]
        /\ \A i \in 1..Len(PostsOf(cms, "contact")) :
               ~HasBlock(PostsOf(cms, "contact")[i], "link") => ContactAbsent(i)

\* a release post with only an image is dropped next to one with only a link, which is kept
C10_Witness ==
    /\ Built
    /\ section = "releases"
    /\ LET posts == PostsOf(cms, "releases") IN
       /\ Len(posts) = 3
       /\ HasBlock(posts[1], "image") /\ ~HasBlock(posts[1], "link") /\ Truthy(posts[1].title)
       /\ ~HasBlock(posts[2], "image") /\ HasBlock(posts[2], "link")
       /\ HasBlock(posts[3], "image") /\ HasBlock(posts[3], "link")
       /\ Len(built.value.releases) = 2
       /\ built.value.releases[1].image = ""

\* a post that lacks a field: a null entry, blocks that are not an array, no title, no slug
\* or no order
Malformed(p) ==
    \/ p = Null
    \/ ~p.blocks.isArray \/ ~Truthy(p.title) \/ ~Truthy(p.slug) \/ p.order = <<>>

\* the post is in the view model of its section (the landing page shows its first post only)
Appears(p, slug) ==
    CASE slug = "landing" -> TRUE
      [] slug = "releases" ->
            \E j \in 1..Len(built.value.releases) : built.value.releases[j] = ReleaseOf(p)
      [] slug = "live" ->
            \E j \in 1..Len(built.value.liveProjects) : built.value.liveProjects[j] = LiveCardOf(p)
      [] slug = "bio" ->
            \E j \in 1..Len(built.value.bioSections) : built.value.bioSections[j] = BioSectionOf(p)
      [] slug = "contact" ->
            \E j \in 1..Len(built.value.contactLinks) : built.value.contactLinks[j] = ContactLinkOf(p)

\* C11: a single malformed post (a null entry, a post without blocks or with blocks that are
\* not an array, without title, slug or order) in a section's posts never makes the build
\* fail: the build succeeds and every well-formed post of the section is in its view model.
C11_MalformedPostNeverFails ==
    built # Null =>
        LET posts == PostsOf(cms, section)
            bad == {i \in 1..Len(posts) : Malformed(posts[i])} IN
        Cardinality(bad) <= 1 =>
            /\ built.ok
            /\ \A i \in 1..Len(posts) :
                   (i \notin bad /\ posts[i].blocks = WellFormedBlocks(section)) =>
                       Appears(posts[i], section)

\* the slugs of the live posts
LiveSlugs == {PostsOf(cms, "live")[i].slug : i \in 1..Len(PostsOf(cms, "live"))}

\* the last live post that has the slug
LastWithSlug(g) ==
    LET posts == PostsOf(cms, "live") IN
    posts[CHOOSE i \in 1..Len(posts) :
              posts[i].slug = g /\ \A j \in 1..Len(posts) : posts[j].slug = g => j <= i]

\* C12: the keys of liveDetailMap are exactly the non-empty slugs of the live posts (a post
\* with an empty or absent slug adds no key), and an entry holds the data of the last post
\* that has its slug.
C12_KeysAreNonEmptySlugs ==
    Built =>
        /\ DOMAIN built.value.liveDetailMap = LiveSlugs \ {Undefined, ""}
        /\ \A g \in LiveSlugs \ {Undefined, ""} :
               built.value.liveDetailMap[g].title = LastWithSlug(g).title

\* C13: every card of liveProjects has an entry in liveDetailMap under the slug of the card,
\* and the entry is the detail of a live post that has this slug.
C13_CardsHaveDetails ==
    Built =>
        \A j \in 1..Len(built.value.liveProjects) :
            LET g == built.value.liveProjects[j].slug IN
            /\ g \in DOMAIN built.value.liveDetailMap
            /\ \E i \in 1..Len(PostsOf(cms, "live")) :
                   /\ PostsOf(cms, "live")[i].slug = g
                   /\ built.value.liveDetailMap[g] = LiveDetailOf(PostsOf(cms, "live")[i])

\* three live posts, two slugs: two cards, and both have their entry
C13_Witness ==
    /\ Built
    /\ section = "live"
    /\ Len(PostsOf(cms, "live")) = 3
    /\ Len(built.value.liveProjects) = 3
    /\ {built.value.liveProjects[j].slug : j \in 1..3} = {"t1", "t2"}
    /\ {"t1", "t2"} \subseteq DOMAIN built.value.liveDetailMap

\* C14: the video of the entry of a live post is null exactly when the post has no video
\* block or the content of its first video block is empty once trimmed; otherwise its type
\* is iframe exactly when the content matches a YouTube or Vimeo host, and video for any
\* other content (a root-relative .mp4 path).
C14_VideoClassified ==
    Built =>
        \A g \in LiveSlugs :
            LET p == LastWithSlug(g)
                fb == firstBlockOfType(p.blocks, "video")
                content == IF fb.found THEN fb.block.content ELSE Undefined
                video == built.value.liveDetailMap[PropertyKey(g)].video IN
            /\ (video = NoVideo) <=> (~fb.found \/ content \in {Undefined, "", "   "})
            /\ video # NoVideo =>
                   /\ video.src = content
                   /\ video.type = (IF content \in {"https://www.youtube.com/watch?v=x",
                                                    "https://player.vimeo.com/video/1"}
                                    THEN "iframe" ELSE "video")

\* a post whose first video block is an .mp4 path has a video of type video, the post next to
\* it has no video block and its video is null
C14_Witness ==
    /\ Built
    /\ section = "live"
    /\ LET posts == PostsOf(cms, "live") IN
       /\ Len(posts) = 2
       /\ posts[1].blocks = ArrayOf(<<Block("video", "/videos/clip.mp4"), Block("video", "   ")>>)
       /\ posts[2].slug = "t2"
       /\ ~firstBlockOfType(posts[2].blocks, "video").found
       /\ built.value.liveDetailMap["t1"].video =
              [type |-> "video", src |-> "/videos/clip.mp4", title |-> "T1"]
       /\ built.value.liveDetailMap["t2"].video = NoVideo

-----------------------------------------------------------------------------
(* Slider Engine: MediaSlider *)

\* A step of the slider is one task of the browser: a click handler, a timer callback or a
\* render with new props, with the re-render it causes and the effects of that render.
\* Timers fire when they are due.

RESUME_DELAY == 3000

\* the instants of Date.now(): the mount, and every TimeStep after it up to MaxTime later
MountTime == 10000
TimeStep == 1000
MaxTime == 8000

\* at most MaxPending resume timers are pending
MaxPending == 2

Intervals == {0, 2000, 4000}

\* the lists a parent passes as images; "" is a falsy entry
ImageLists ==
    {ArrayOf(<<>>), ArrayOf(<<"">>), ArrayOf(<<"/a.jpg">>), ArrayOf(<<"/a.jpg", "", "/b.jpg">>),
     ArrayOf(<<"/a.jpg", "/b.jpg", "/c.jpg">>)}

bootstrapState == <<cms, sessionStorage, appState, dataLoaded, load, effectPending, strictMode,
                    painted, lastSet, section, built>>

Max(a, b) == IF a >= b THEN a ELSE b

\* the % of JavaScript: the result has the sign of the dividend
JsRem(a, n) == IF a >= 0 THEN a % n ELSE 0 - ((0 - a) % n)

\* line 67
hasImages(f) == Len(f) > 0

\* lines 130 and 143: the updaters of goPrev and goNext
PrevIndexNoWrap(i, n) == JsRem(i - 1, n)
PrevIndex(i, n) == JsRem(i - 1 + n, n)
NextIndex(i, n) == JsRem(i + 1, n)

\* lines 49-50: the delay of the autoplay timer
delayRemaining(interval, timeSinceLastNav) == interval - timeSinceLastNav
delay(interval, timeSinceLastNav) == Max(interval, interval - timeSinceLastNav)

AutoplayTimer(due, d) == [kind |-> "autoplay", due |-> due, delay |-> d]
ResumeTimer(due) == [kind |-> "resume", due |-> due, delay |-> RESUME_DELAY]

\* setTimeout(callback, d) at t: a negative delay counts as 0
setTimeout(ts, tm) == Append(ts, tm)
DueAt(t, d) == t + Max(0, d)

\* lines 62-64: if (timeoutId) clearTimeout(timeoutId)
clearTimeoutKeeps(ts, id) == ts
clearTimeout(ts, id) ==
    IF id = <<>> THEN ts
    ELSE LET hits == {i \in 1..Len(ts) : ts[i] = id[1]} IN
         IF hits = {} THEN ts ELSE RemoveAt(ts, Min(hits))

\* lines 46-58: scheduleNext in a render where autoplay is not paused
scheduleNext(ts, interval, lastNav, t) ==
    LET d == delay(interval, t - lastNav)
        tm == AutoplayTimer(DueAt(t, d), d) IN
    [timers |-> setTimeout(ts, tm), timeoutId |-> <<tm>>]

\* lines 42-65: the cleanup of the previous run of the autoplay effect, then its new run
AutoplayEffect(ts, id, f, interval, lastNav, paused, t) ==
    LET cleaned == clearTimeout(ts, id) IN
    IF interval = 0 \/ Len(f) <= 1 \/ paused THEN [timers |-> cleaned, timeoutId |-> <<>>]
    ELSE scheduleNext(cleaned, interval, lastNav, t)

\* lines 15-19: the files and the index after the files effect ran on the images im
FilesEffect(im, f, i) ==
    IF im.isArray /\ Len(im.items) > 0
    THEN [ran |-> TRUE, files |-> SelectSeq(im.items, Truthy), index |-> 0]
    ELSE [ran |-> FALSE, files |-> f, index |-> i]       \* no dataUrl: return

PendingOf(kind) == {i \in 1..Len(timers) : timers[i].kind = kind}

\* the step taken last, with the index, the item count and the number of pending resume
\* timers it started from
SliderEvent(type, im) ==
    [type |-> type, index |-> index, count |-> Len(files), images |-> im,
     resumes |-> Cardinality(PendingOf("resume"))]

\* the first render and the mount effects of a slider
InitSlider ==
    /\ images \in ImageLists
    /\ intervalMs \in Intervals
    /\ sliderMounted = TRUE
    /\ now = MountTime
    /\ LET fe == FilesEffect(images, <<>>, 0)
           ae == AutoplayEffect(<<>>, <<>>, fe.files, intervalMs, 0, FALSE, MountTime) IN
       /\ files = fe.files
       /\ index = fe.index
       /\ timers = ae.timers
       /\ timeoutId = ae.timeoutId
    /\ lastManualNavigation = 0
    /\ autoPlayPaused = FALSE
    /\ lastEvent = [type |-> "mount", index |-> 0, count |-> 0, images |-> images, resumes |-> 0]
    /\ cms = FixtureA
    /\ sessionStorage = [k \in Keys |-> MissingItem]
    /\ landingSlides = <<>> /\ releases = <<>> /\ liveProjects = <<>>
    /\ liveDetailMap = EmptyObject /\ bioSections = <<>> /\ contactLinks = <<>>
    /\ dataLoaded = FALSE
    /\ load = [r \in Runs |-> IdleRun]
    /\ effectPending = FALSE
    /\ strictMode = FALSE
    /\ painted = NotPainted
    /\ lastSet = [k \in Keys |-> NoSet]
    /\ builderIdle
    /\ restIdle

\* lines 126-150: the body of goPrev and goNext, and the render that follows
Navigate(type, i) ==
    /\ sliderMounted
    /\ hasImages(files)
    /\ Cardinality(PendingOf("resume")) < MaxPending
    /\ now + RESUME_DELAY <= MountTime + MaxTime
    /\ autoPlayPaused' = TRUE
    /\ index' = i
    /\ lastManualNavigation' = now
    /\ LET armed == setTimeout(timers, ResumeTimer(DueAt(now, RESUME_DELAY)))
           ae == AutoplayEffect(armed, timeoutId, files, intervalMs, now, TRUE, now) IN
       /\ timers' = ae.timers
       /\ timeoutId' = ae.timeoutId
    /\ lastEvent' = SliderEvent(type, images)
    /\ UNCHANGED <<images, intervalMs, sliderMounted, files, now, bootstrapState, restState>>

goPrev == Navigate("goPrev", IF hasImages(files) THEN PrevIndex(index, Len(files)) ELSE index)

goNext == Navigate("goNext", IF hasImages(files) THEN NextIndex(index, Len(files)) ELSE index)

\* lines 134-136 and 147-149: setAutoPlayPaused(false)
PausedAfterResumeOfLast(paused, left) ==
    IF \E i \in 1..Len(left) : left[i].kind = "resume" THEN paused ELSE FALSE
PausedAfterResume(paused, left) == FALSE

\* a resume timer fires; a state update of an unmounted component does nothing, and an
\* update to the value the state has causes no render
ResumeFires(i) ==
    /\ i \in PendingOf("resume")
    /\ timers[i].due <= now
    /\ LET left == RemoveAt(timers, i)
           paused == IF sliderMounted THEN PausedAfterResume(autoPlayPaused, left)
                     ELSE autoPlayPaused
           ae == AutoplayEffect(left, timeoutId, files, intervalMs, lastManualNavigation,
                                paused, now) IN
       /\ autoPlayPaused' = paused
       /\ timers' = IF paused # autoPlayPaused THEN ae.timers ELSE left
       /\ timeoutId' = IF paused # autoPlayPaused THEN ae.timeoutId ELSE timeoutId
    /\ lastEvent' = SliderEvent("resume", images)
    /\ UNCHANGED <<images, intervalMs, sliderMounted, files, index, lastManualNavigation, now,
                   bootstrapState, restState>>

\* lines 52-57: the autoplay timer fires; it was armed in a render where autoplay was not
\* paused, and the effect runs again whenever files, intervalMs or lastManualNavigation change
AutoplayFires(i) ==
    /\ i \in PendingOf("autoplay")
    /\ timers[i].due <= now
    /\ LET next == scheduleNext(RemoveAt(timers, i), intervalMs, lastManualNavigation, now) IN
       /\ timers' = next.timers
       /\ timeoutId' = next.timeoutId
    /\ index' = IF sliderMounted THEN NextIndex(index, Len(files)) ELSE index
    /\ lastEvent' = SliderEvent("autoplay", images)
    /\ UNCHANGED <<images, intervalMs, sliderMounted, files, lastManualNavigation,
                   autoPlayPaused, now, bootstrapState, restState>>

\* lines 14-35: the parent renders the slider with another images array
SetImages(im) ==
    /\ sliderMounted
    /\ images' = im
    /\ LET fe == FilesEffect(im, files, index)
           ae == AutoplayEffect(timers, timeoutId, fe.files, intervalMs, lastManualNavigation,
                                autoPlayPaused, now) IN
       /\ files' = fe.files
       /\ index' = fe.index
       /\ timers' = IF fe.ran THEN ae.timers ELSE timers
       /\ timeoutId' = IF fe.ran THEN ae.timeoutId ELSE timeoutId
    /\ lastEvent' = SliderEvent("setImages", im)
    /\ UNCHANGED <<intervalMs, sliderMounted, lastManualNavigation, autoPlayPaused, now,
                   bootstrapState, restState>>

\* the slider leaves the page: the cleanup of the autoplay effect runs
Unmount ==
    /\ sliderMounted
    /\ sliderMounted' = FALSE
    /\ timers' = clearTimeout(timers, timeoutId)
    /\ timeoutId' = <<>>
    /\ lastEvent' = SliderEvent("unmount", images)
    /\ UNCHANGED <<images, intervalMs, files, index, lastManualNavigation, autoPlayPaused, now,
                   bootstrapState, restState>>

\* time passes, up to the next timer that is due
Elapse ==
    /\ now + TimeStep <= MountTime + MaxTime
    /\ \A i \in 1..Len(timers) : timers[i].due > now
    /\ now' = now + TimeStep
    /\ lastEvent' = SliderEvent("elapse", images)
    /\ UNCHANGED <<sliderState, bootstrapState, restState>>

TimerFires == \E i \in 1..Len(timers) : ResumeFires(i) \/ AutoplayFires(i)

NextSlider ==
    \/ goPrev
    \/ goNext
    \/ \E i \in 1..Len(timers) : ResumeFires(i)
    \/ \E i \in 1..Len(timers) : AutoplayFires(i)
    \/ \E im \in ImageLists : SetImages(im)
    \/ Unmount
    \/ Elapse

SpecSlider == InitSlider /\ [][NextSlider]_vars

\* timers that are due fire, and time passes
SpecSliderLive == SpecSlider /\ WF_vars(TimerFires) /\ WF_vars(Elapse)

\* C15: with n >= 1 items at index i, next() sets the index to (i + 1) mod n and prev() sets
\* it to (i - 1 + n) mod n, and a prev() after a next(), or a next() after a prev(), is back
\* at i.
C15_NavigationWraps ==
    /\ lastEvent.type = "goNext" =>
           /\ lastEvent.count >= 1
           /\ index = (lastEvent.index + 1) % lastEvent.count
           /\ (index - 1 + lastEvent.count) % lastEvent.count = lastEvent.index
    /\ lastEvent.type = "goPrev" =>
           /\ lastEvent.count >= 1
           /\ index = (lastEvent.index - 1 + lastEvent.count) % lastEvent.count
           /\ (index + 1) % lastEvent.count = lastEvent.index

\* three items: prev() at index 0 gives index 2
C15_Witness ==
    /\ lastEvent.type = "goPrev"
    /\ lastEvent.count = 3
    /\ lastEvent.index = 0
    /\ index = 2

\* C16: autoplay is paused at every instant less than 3000 ms after the last manual
\* navigation, also when an earlier navigation was less than 3000 ms before it: the resume
\* timer of the earlier navigation does not clear the pause.
C16_PausedUntilLastResume ==
    (sliderMounted /\ now - lastManualNavigation < RESUME_DELAY) => autoPlayPaused

\* autoplay runs again: it is not paused, and its timer is pending when there is one to arm
AutoplayResumed ==
    /\ ~autoPlayPaused
    /\ (Len(files) > 1 /\ intervalMs # 0) => PendingOf("autoplay") # {}

NavigationPauses ==
    (sliderMounted /\ lastEvent.type \in {"goPrev", "goNext"}) =>
        /\ autoPlayPaused
        /\ Cardinality(PendingOf("resume")) = lastEvent.resumes + 1
        /\ \E i \in PendingOf("resume") : timers[i].due = now + 3000

ResumeClearsPause == (sliderMounted /\ lastEvent.type = "resume") => AutoplayResumed

\* C17: a manual navigation sets the paused flag at once and arms one more 3000 ms timer;
\* every such timer clears the flag when it fires, whatever other timers are pending; and
\* while the slider stays mounted a paused autoplay is resumed in the end.
C17_ResumeAlwaysClearsPause ==
    /\ [](NavigationPauses /\ ResumeClearsPause)
    /\ (sliderMounted /\ autoPlayPaused) ~> (~sliderMounted \/ AutoplayResumed)

\* the timer of an earlier navigation cleared the pause, the timer of a later one is pending
C17_Witness ==
    /\ sliderMounted
    /\ lastEvent.type = "resume"
    /\ ~autoPlayPaused
    /\ PendingOf("resume") # {}
    /\ PendingOf("autoplay") # {}

C19_AutoplayNotBeforeInterval ==
    /\ \A i \in PendingOf("autoplay") :
           /\ timers[i].delay >= intervalMs
           /\ timers[i].due >= lastManualNavigation + intervalMs
    /\ lastEvent.type = "autoplay" => now - lastManualNavigation >= intervalMs

\* two navigations, the resume timer of the first re-started autoplay, and autoplay fired
\* before the resume timer of the second one
C19_Witness ==
    /\ lastEvent.type = "autoplay"
    /\ lastManualNavigation > 0
    /\ intervalMs > 0
    /\ now - lastManualNavigation < 3000
    /\ PendingOf("resume") # {}

\* C20: when the images prop changes, the items are the new list without its falsy entries
\* and the index is 0; after a change to an empty list the slider has no items.
C20_ImagesReplaceFiles ==
    lastEvent.type = "setImages" =>
        /\ files = SelectSeq(lastEvent.images.items, Truthy)
        /\ index = 0
        /\ lastEvent.images.items = <<>> => ~hasImages(files)

\* C21: after the slider unmounted, no timer it armed is pending, neither the autoplay timer
\* nor a resume timer, so no timer callback of an unmounted slider runs.
C21_NoTimersAfterUnmount ==
    ~sliderMounted => timers = <<>>

-----------------------------------------------------------------------------
(* Slider Engine: the index under several setIndex calls before one render *)

\* A handler or timer callback runs with the values of the render it was created in; the
\* setIndex calls it makes are queued and applied, in order, by the next render.

\* the app is not on the page: nothing of the bootstrap moves
bootstrapIdle ==
    /\ cms = FixtureA
    /\ sessionStorage = [k \in Keys |-> MissingItem]
    /\ landingSlides = <<>> /\ releases = <<>> /\ liveProjects = <<>>
    /\ liveDetailMap = EmptyObject /\ bioSections = <<>> /\ contactLinks = <<>>
    /\ dataLoaded = FALSE
    /\ load = [r \in Runs |-> IdleRun]
    /\ effectPending = FALSE
    /\ strictMode = FALSE
    /\ painted = NotPainted
    /\ lastSet = [k \in Keys |-> NoSet]
    /\ builderIdle

Components == {"MediaSlider", "CrossfadeGallery"}

\* at most MaxBatch setIndex calls are queued before a render
MaxBatch == 3

\* MediaSlider.jsx 54, 130, 143: setIndex((i) => ...), an updater
\* part_001 83-85, 130-132, 145-147: setIndex(nextIndex), a value computed from the index of
\* the render
Update(kind, value) == [kind |-> kind, value |-> value]

setIndex(c, kind, i, n) ==
    IF c = "MediaSlider" THEN Update(kind, 0)
    ELSE Update("value", IF kind = "next" THEN NextIndex(i, n) ELSE PrevIndex(i, n))

\* the state after one queued update
ApplyUpdate(i, u, n) ==
    CASE u.kind = "next" -> NextIndex(i, n)
      [] u.kind = "prev" -> PrevIndex(i, n)
      [] u.kind = "value" -> u.value

RECURSIVE ApplyUpdates(_, _, _)
ApplyUpdates(i, us, n) ==
    IF us = <<>> THEN i ELSE ApplyUpdates(ApplyUpdate(i, Head(us), n), Tail(us), n)

\* MediaSlider.jsx 127, 140: if (!hasImages) return; part_001 127, 142: if (files.length <= 1) return
CanNavigate(c, f) == IF c = "MediaSlider" THEN hasImages(f) ELSE Len(f) > 1

InitIndex ==
    /\ component \in Components
    /\ \E im \in ImageLists : files = SelectSeq(im.items, Truthy)
    /\ index = 0
    /\ updates = <<>>
    /\ expected = 0
    /\ effects = {}
    /\ images = NotArray /\ intervalMs = 0 /\ sliderMounted = TRUE
    /\ lastManualNavigation = 0 /\ autoPlayPaused = FALSE
    /\ timeoutId = <<>> /\ timers = <<>>
    /\ now = 0
    /\ lastEvent = [type |-> "mount"]
    /\ bootstrapIdle
    /\ scrambleIdle
    /\ scriptIdle
    /\ routeIdle

Queue(type, u) ==
    /\ Len(updates) < MaxBatch
    /\ updates' = Append(updates, u)
    /\ lastEvent' = [type |-> type]
    /\ UNCHANGED <<component, effects, sliderState, now, bootstrapState, notIndex>>

\* goNext of the last render is called
QueueNext ==
    /\ CanNavigate(component, files)
    /\ expected' = NextIndex(expected, Len(files))
    /\ Queue("goNext", setIndex(component, "next", index, Len(files)))

\* goPrev of the last render is called
QueuePrev ==
    /\ CanNavigate(component, files)
    /\ expected' = PrevIndex(expected, Len(files))
    /\ Queue("goPrev", setIndex(component, "prev", index, Len(files)))

\* the autoplay timer armed by the last render fires
QueueAutoplay ==
    /\ Len(files) > 1
    /\ expected' = NextIndex(expected, Len(files))
    /\ Queue("autoplay", setIndex(component, "next", index, Len(files)))

\* React renders: the queued updates are applied in order
Render ==
    /\ updates # <<>>
    /\ index' = ApplyUpdates(index, updates, Len(files))
    /\ updates' = <<>>
    /\ lastEvent' = [type |-> "render"]
    /\ UNCHANGED <<component, expected, effects, images, intervalMs, sliderMounted, files,
                   lastManualNavigation, autoPlayPaused, timeoutId, timers, now, bootstrapState,
                   notIndex>>

NextIndexUpdates == QueueNext \/ QueuePrev \/ QueueAutoplay \/ Render

SpecIndex == InitIndex /\ [][NextIndexUpdates]_vars

\* C22: in MediaSlider and in CrossfadeGallery, manual navigations and autoplay firings move
\* the index one step each from the value the previous one left, also when several of them
\* run before the next render: once rendered, the index is where the steps taken one at a
\* time lead.
C22_NoLostIndexUpdate ==
    updates = <<>> => index = expected

-----------------------------------------------------------------------------
(* Scramble Animation: TextScramble and useScramble *)

\* the texts of an element, as sequences of characters
Texts == {<<>>, <<"a">>, <<"a", "b">>}

\* useScramble.js 6: the substitution alphabet, by two of its twelve glyphs
Glyphs == {"glyph1", "glyph2"}

\* useScramble.js 23-24: Math.floor(Math.random() * StartRange), ... * EndRange
StartRange == 30
EndRange == 20

\* Math.floor(Math.random() * n) is any of 0 .. n-1: the least, the next and the greatest
RandomBelow(n) == {0, 1, n - 1}

Cell(kind, char) == [kind |-> kind, char |-> char]

\* the element shows a text: el.innerText = text, or the children React rendered
Plain(t) == [i \in 1..Len(t) |-> Cell("text", t[i])]

\* el.innerText: the characters shown
innerText(out) ==
    LET shown == SelectSeq(out, LAMBDA c : c.char # "") IN
    [i \in 1..Len(shown) |-> shown[i].char]

\* oldText[i] || ''
CharAt(t, i) == IF i <= Len(t) THEN t[i] ELSE ""

\* lines 15-26: the queues setText may build, one for each outcome of Math.random
Queues(oldText, newText) ==
    LET length == Max(Len(oldText), Len(newText))
        Timings == RandomBelow(StartRange) \X RandomBelow(EndRange) IN
    {[i \in 1..length |-> [from |-> CharAt(oldText, i), to |-> CharAt(newText, i),
                           start |-> tm[i][1], end |-> tm[i][1] + tm[i][2], char |-> ""]] :
        tm \in [1..length -> Timings]}

\* lines 41-52: what update shows for a queue entry at frame f, ch being its glyph
CellAtAfterEnd(e, f, ch) ==
    IF f > e.end THEN Cell("to", e.to)
    ELSE IF f >= e.start THEN Cell("glyph", ch)
    ELSE Cell("from", e.from)
CellAt(e, f, ch) ==
    IF f >= e.end THEN Cell("to", e.to)
    ELSE IF f >= e.start THEN Cell("glyph", ch)
    ELSE Cell("from", e.from)

\* lines 45-48: the entry gets a glyph when it has none, and a new one now and then
Glitching(e, f) == f < e.end /\ f >= e.start
Picks(q, f) ==
    {pk \in [1..Len(q) -> Glyphs \cup {"keep"}] :
        \A i \in 1..Len(q) :
            IF Glitching(q[i], f) THEN (q[i].char = "" => pk[i] # "keep") ELSE pk[i] = "keep"}
NewChar(e, pk) == IF pk = "keep" THEN e.char ELSE pk

\* line 62: this.frame++
NextFrameStuck(f) == f
NextFrame(f) == f + 1

\* lines 34-64: update() at frame f with reqs frame callbacks pending
update(q, f, reqs, pk) ==
    LET out == [i \in 1..Len(q) |-> CellAt(q[i], f, NewChar(q[i], pk[i]))]
        complete == Cardinality({i \in 1..Len(q) : out[i].kind = "to"})
        done == complete = Len(q) IN
    [queue |-> [i \in 1..Len(q) |->
                   IF Glitching(q[i], f) THEN [q[i] EXCEPT !.char = NewChar(q[i], pk[i])]
                   ELSE q[i]],
     output |-> out,
     resolved |-> done,
     frameRequests |-> IF done THEN reqs ELSE reqs + 1,
     frame |-> IF done THEN f ELSE NextFrame(f)]

\* line 28: cancelAnimationFrame(this.frameRequest)
cancelAnimationFrame(reqs) == IF reqs > 0 THEN reqs - 1 ELSE 0

\* the step taken last, with the state it started from
ScrambleEvent(type, used, resolved) ==
    [type |-> type, used |-> used, resolved |-> resolved, visible |-> isVisible,
     timers |-> delayTimers, requests |-> frameRequests, frame |-> frame, queue |-> queue,
     output |-> output, calls |-> calls]

\* lines 11-32: setText(newText) on the instance
setText(type, newText) ==
    IF isAnimating
    THEN /\ lastEvent' = ScrambleEvent(type, 0, FALSE)
         /\ UNCHANGED <<isAnimating, queue, frame, frameRequests, output>>
    ELSE \E q \in Queues(innerText(output), newText) : \E pk \in Picks(q, 0) :
             LET r == update(q, 0, cancelAnimationFrame(frameRequests), pk) IN
             /\ queue' = r.queue
             /\ output' = r.output
             /\ frame' = r.frame
             /\ frameRequests' = r.frameRequests
             /\ isAnimating' = (IF r.resolved THEN FALSE ELSE isAnimating)
             /\ lastEvent' = ScrambleEvent(type, 0, r.resolved)

\* line 61: a frame callback runs update
Frame ==
    /\ frameRequests > 0
    /\ \E pk \in Picks(queue, frame) :
           LET r == update(queue, frame, frameRequests - 1, pk) IN
           /\ queue' = r.queue
           /\ output' = r.output
           /\ frame' = r.frame
           /\ frameRequests' = r.frameRequests
           /\ isAnimating' = (IF r.resolved THEN FALSE ELSE isAnimating)
           /\ lastEvent' = ScrambleEvent("frame", frame, r.resolved)
    /\ UNCHANGED <<text, elMounted, observing, isVisible, delayTimers, calls>>
    /\ UNCHANGED <<bootstrapState, sliderState, now, notScramble>>

\* line 80: isVisibleRef.current = true
VisibleAfterStartUnset == FALSE
VisibleAfterStart == TRUE

\* useScramble.js 104-116: the element after its mount effect: a scrambler, an observer
InitScramble ==
    /\ text \in Texts
    /\ elMounted = TRUE
    /\ observing = TRUE
    /\ isVisible = FALSE
    /\ delayTimers = 0
    /\ isAnimating = FALSE
    /\ queue = <<>>
    /\ frame = 0
    /\ frameRequests = 0
    /\ output = Plain(text)
    /\ calls = 0
    /\ now = 0
    /\ lastEvent = [type |-> "mount"]
    /\ bootstrapIdle
    /\ sliderIdle
    /\ indexIdle
    /\ scriptIdle
    /\ routeIdle

\* lines 96-102 and 77-94: the observer delivers an entry for the element
Intersect(isIntersecting) ==
    /\ observing
    /\ IF isIntersecting /\ ~isVisible
       THEN /\ isVisible' = VisibleAfterStart
            /\ output' = IF elMounted THEN Plain(text) ELSE output
            /\ delayTimers' = delayTimers + 1
       ELSE UNCHANGED <<isVisible, output, delayTimers>>
    /\ lastEvent' = ScrambleEvent(IF isIntersecting THEN "intersect" ELSE "leave", 0, FALSE)
    /\ UNCHANGED <<text, elMounted, observing, isAnimating, queue, frame, frameRequests, calls>>
    /\ UNCHANGED <<bootstrapState, sliderState, now, notScramble>>

\* lines 89-93: the timer of startAnimation fires
DelayFires ==
    /\ delayTimers > 0
    /\ delayTimers' = delayTimers - 1
    /\ IF elMounted
       THEN /\ calls' = calls + 1
            /\ setText("delay", text)
       ELSE /\ lastEvent' = ScrambleEvent("delay", 0, FALSE)
            /\ UNCHANGED <<calls, isAnimating, queue, frame, frameRequests, output>>
    /\ UNCHANGED <<text, elMounted, observing, isVisible>>
    /\ UNCHANGED <<bootstrapState, sliderState, now, notScramble>>

\* lines 118-129: the element unmounts and the cleanup of the effect runs; React may have
\* cleared elRef.current by then (refSet is false), and then unobserve is not called
UnmountScramble(refSet) ==
    /\ elMounted
    /\ elMounted' = FALSE
    /\ observing' = IF refSet THEN FALSE ELSE observing
    /\ isAnimating' = FALSE
    /\ lastEvent' = ScrambleEvent("unmount", 0, FALSE)
    /\ UNCHANGED <<text, isVisible, delayTimers, queue, frame, frameRequests, output, calls>>
    /\ UNCHANGED <<bootstrapState, sliderState, now, notScramble>>

NextScramble ==
    \/ \E hit \in BOOLEAN : Intersect(hit)
    \/ DelayFires
    \/ Frame
    \/ \E refSet \in BOOLEAN : UnmountScramble(refSet)

SpecScramble == InitScramble /\ [][NextScramble]_vars

\* the browser runs the frame callbacks and the timers
SpecScrambleLive == SpecScramble /\ WF_vars(Frame) /\ WF_vars(DelayFires)

Settled == frameRequests = 0 /\ \A i \in 1..Len(output) : output[i].kind = "to"

\* C23: an element goes from hidden to revealing at most once: it never becomes hidden
\* again, one delay timer is armed and setText is called once at most, and an intersection
\* callback that comes once the element is visible (before the delay elapsed, during the
\* animation or after it settled) arms no timer and no frame callback and leaves the
\* animation and the text as they are.
C23_RevealsOnce ==
    /\ delayTimers + calls <= 1
    /\ lastEvent.type # "mount" =>
           /\ lastEvent.visible => isVisible
           /\ (lastEvent.type \in {"intersect", "leave"} /\ lastEvent.visible) =>
                  /\ delayTimers = lastEvent.timers
                  /\ frameRequests = lastEvent.requests
                  /\ calls = lastEvent.calls
                  /\ queue = lastEvent.queue
                  /\ frame = lastEvent.frame
                  /\ output = lastEvent.output

\* the element intersects again after its two characters settled
C23_Witness ==
    /\ lastEvent.type = "intersect"
    /\ lastEvent.visible
    /\ calls = 1
    /\ Len(text) = 2
    /\ Settled
    /\ innerText(output) = text

RECURSIVE MaxEnd(_)
MaxEnd(q) == IF q = <<>> THEN 0 ELSE Max(Head(q).end, MaxEnd(Tail(q)))

\* the last step ran update (at frame lastEvent.used)
Updated ==
    \/ lastEvent.type = "frame"
    \/ lastEvent.type = "delay" /\ calls > lastEvent.calls

AnimationEndsAtMaxEnd ==
    /\ frameRequests <= 1
    /\ frameRequests > 0 => (frame <= MaxEnd(queue) /\ frame <= 48 /\ ~Settled)
    /\ Updated =>
           /\ lastEvent.resolved <=> lastEvent.used >= MaxEnd(queue)
           /\ lastEvent.resolved =>
                  /\ lastEvent.used = MaxEnd(queue)
                  /\ lastEvent.used <= 48
                  /\ Settled
           /\ queue = <<>> => (lastEvent.resolved /\ lastEvent.used = 0)

\* C25: an animation resolves at the first frame at which every character is complete, the
\* greatest end frame, which is at most 48; no frame callback is pending once it resolved; an
\* empty text resolves at frame 0; and every animation that runs resolves.
C25_AnimationTerminates ==
    /\ []AnimationEndsAtMaxEnd
    /\ (frameRequests > 0) ~> Settled

\* two characters, one of which ends at frame 48: the animation resolved at frame 48
C25_Witness ==
    /\ lastEvent.type = "frame"
    /\ lastEvent.resolved
    /\ lastEvent.used = 48
    /\ Len(queue) = 2
    /\ Settled

\* the number of characters showing their target
Complete(out) == Cardinality({i \in 1..Len(out) : out[i].kind = "to"})

\* C26: the update at frame f shows, for each character, the original before its start frame, a
\* glyph of the alphabet from its start frame to before its end frame, the target from its end
\* frame on; the frame counter never decreases, a character that shows its target keeps
\* showing it, and the number of complete characters never decreases.
C26_CellFollowsFrame ==
    /\ Updated =>
           /\ Len(output) = Len(queue)
           /\ \A i \in 1..Len(queue) :
                  LET e == queue[i]
                      f == lastEvent.used IN
                  /\ f < e.start => output[i] = Cell("from", e.from)
                  /\ (e.start <= f /\ f < e.end) =>
                         (output[i].kind = "glyph" /\ output[i].char \in Glyphs)
                  /\ f >= e.end => output[i] = Cell("to", e.to)
    /\ lastEvent.type = "frame" =>
           /\ frame >= lastEvent.frame
           /\ lastEvent.used = lastEvent.frame
           /\ \A i \in 1..Len(lastEvent.output) :
                  lastEvent.output[i].kind = "to" => output[i] = lastEvent.output[i]
           /\ Complete(output) >= Complete(lastEvent.output)

\* a frame at which one character passes from a glyph to its target while another one still
\* shows the original
C26_Witness ==
    /\ lastEvent.type = "frame"
    /\ \E i, j \in 1..Len(output) :
           /\ lastEvent.output[i].kind = "glyph"
           /\ output[i].kind = "to"
           /\ output[j].kind = "from"

\* C28: once the element unmounted the observer no longer observes it, and no delay timer and
\* no frame callback runs an update that writes to the element.
C28_QuietAfterUnmount == ~elMounted => (~observing /\ ~Updated)

-----------------------------------------------------------------------------
(* TextScramble alone: setText called on one instance at any time *)

\* at most MaxCalls calls of setText
MaxCalls == 2

ShortTexts == {<<>>, <<"a">>, <<"b">>}

\* lines 4-9: a new TextScramble on an element that shows a text
InitTextScramble ==
    /\ text \in ShortTexts
    /\ output = Plain(text)
    /\ isAnimating = FALSE
    /\ queue = <<>>
    /\ frame = 0
    /\ frameRequests = 0
    /\ calls = 0
    /\ elMounted = TRUE /\ observing = FALSE /\ isVisible = FALSE /\ delayTimers = 0
    /\ now = 0
    /\ lastEvent = [type |-> "new"]
    /\ bootstrapIdle
    /\ sliderIdle
    /\ indexIdle
    /\ scriptIdle
    /\ routeIdle

CallSetText(newText) ==
    /\ calls < MaxCalls
    /\ calls' = calls + 1
    /\ setText("setText", newText)
    /\ UNCHANGED <<text, elMounted, observing, isVisible, delayTimers>>
    /\ UNCHANGED <<bootstrapState, sliderState, now, notScramble>>

NextTextScramble ==
    \/ \E newText \in ShortTexts : CallSetText(newText)
    \/ Frame

SpecTextScramble == InitTextScramble /\ [][NextTextScramble]_vars

\* C24: a setText call made while the animation of an earlier setText is in flight (its
\* frame callback is pending) is ignored: the frame counter, the queue and the pending frame
\* callback stay as they are.
C24_SetTextIgnoredInFlight ==
    (lastEvent.type = "setText" /\ lastEvent.requests > 0) =>
        /\ frame = lastEvent.frame
        /\ queue = lastEvent.queue
        /\ frameRequests = lastEvent.requests

-----------------------------------------------------------------------------
(* Claims on late responses and on the bundle behind the six states of App *)

\* part_000:672-710, 737-743: under StrictMode the mount effect runs, is cleaned up and runs
\* again; the load() of the first run is the one whose effect was cleaned up
CleanedUp(r) == strictMode /\ r = 1

\* C27: a response or a failure that arrives after the effect that issued the request was
\* cleaned up changes none of the component's states (for App: the six view-model states and
\* the loaded flag).
C27_LateResponseIgnored ==
    (lastEvent.type \in {"success", "failure"} /\ CleanedUp(lastEvent.run)) =>
        (Bundle = lastEvent.bundle /\ dataLoaded = lastEvent.loaded)

InitialBundle ==
    [landingSlides |-> InitialView.landingSlides, releases |-> InitialView.releases,
     liveProjects |-> InitialView.liveProjects, liveDetailMap |-> InitialView.liveDetailMap,
     bioSections |-> InitialView.bioSections, contactLinks |-> InitialView.contactLinks]

\* C30: the six view-model states are all the initial values, or all those of the cache entry
\* a load() read, or all those of the build a load() finished; a failed request changes none
\* of the six.
C30_OneBundle ==
    /\ \/ Bundle = InitialBundle
       \/ \E r \in Runs : load[r].cached # Null /\ Bundle = load[r].cached
       \/ (\E r \in Runs : load[r].pc = "done") /\ Bundle = BundleOf(cms)
    /\ lastEvent.type = "failure" => Bundle = lastEvent.bundle

\* the refresh failed after the cache hydrated the six states with a bundle that is not the
\* one the CMS would give
C30_Witness ==
    /\ lastEvent.type = "failure"
    /\ load[lastEvent.run].cached # Null
    /\ Bundle = load[lastEvent.run].cached
    /\ Bundle # InitialBundle
    /\ Bundle.contactLinks # InitialBundle.contactLinks
    /\ Bundle.releases # InitialBundle.releases

\* C31: no step takes the loaded flag from true back to false, whatever the order in which
\* the load() runs of the mount effect are answered.
C31_LoadedNeverReset == lastEvent.loaded => dataLoaded

-----------------------------------------------------------------------------
(* Slider Engine: MediaSlider between a render, its passive effects and the timers *)

\* React commits a render, runs its passive effects later, and applies the state updates
\* queued meanwhile in the render after that; a timer callback may run between any two of
\* these, with the values of the render whose effect armed it.

\* a queued state update: setFiles(value), setIndex(0), setIndex(updater over a list of n
\* files), setAutoPlayPaused(flag)
StateUpdate(kind, by, fl, n, flag) == [kind |-> kind, by |-> by, files |-> fl, n |-> n, flag |-> flag]

SliderCells == [files |-> files, index |-> index, paused |-> autoPlayPaused]

ApplyStateUpdate(st, u) ==
    CASE u.kind = "files" -> [st EXCEPT !.files = u.files]
      [] u.kind = "zero" -> [st EXCEPT !.index = 0]
      [] u.kind = "next" -> [st EXCEPT !.index = NextIndex(st.index, u.n)]
      [] u.kind = "prev" -> [st EXCEPT !.index = PrevIndex(st.index, u.n)]
      [] u.kind = "paused" -> [st EXCEPT !.paused = u.flag]

RECURSIVE ApplyStateUpdates(_, _)
ApplyStateUpdates(st, us) ==
    IF us = <<>> THEN st ELSE ApplyStateUpdates(ApplyStateUpdate(st, Head(us)), Tail(us))

\* lines 14-19: the files effect with an images prop
FilesEffectUpdates(im) ==
    IF im.isArray /\ Len(im.items) > 0
    THEN <<StateUpdate("files", "effect", SelectSeq(im.items, Truthy), 0, FALSE),
           StateUpdate("zero", "effect", <<>>, 0, FALSE)>>
    ELSE <<>>

\* lines 42-65: the timer the autoplay effect holds after it ran for a render; its callback
\* keeps files.length of that render
AutoplayArmed(interval, f, paused) ==
    IF interval = 0 \/ Len(f) <= 1 \/ paused THEN <<>>
    ELSE <<[kind |-> "autoplay", count |-> Len(f)]>>

RerenderEvent(type) == [type |-> type, files |-> files, index |-> index, held |-> timeoutId]

InitRerender ==
    /\ component = "MediaSlider"
    /\ images \in ImageLists
    /\ intervalMs \in {0, 2000}
    /\ sliderMounted = TRUE
    /\ files = <<>> /\ index = 0 /\ lastManualNavigation = 0 /\ autoPlayPaused = FALSE
    /\ timeoutId = <<>> /\ timers = <<>>
    /\ updates = <<>>
    /\ expected = 0
    /\ effects = {"files", "autoplay"}
    /\ now = 0
    /\ lastEvent = [type |-> "mount", files |-> <<>>, index |-> 0, held |-> <<>>]
    /\ bootstrapIdle
    /\ scrambleIdle
    /\ scriptIdle
    /\ routeIdle

\* React renders and commits: pending passive effects are flushed before a render starts; the
\* queued updates are applied in order; the parent may pass another images array
RenderSlider(replaced, im) ==
    /\ effects = {}
    /\ replaced \/ updates # <<>>
    /\ LET st == ApplyStateUpdates(SliderCells, updates) IN
       /\ files' = st.files
       /\ index' = st.index
       /\ autoPlayPaused' = st.paused
       /\ images' = IF replaced THEN im ELSE images
       /\ effects' = (IF replaced THEN {"files"} ELSE {})
                        \cup (IF \/ st.files # files
                                 \/ st.paused # autoPlayPaused
                                 \/ \E i \in 1..Len(updates) : updates[i].by = "handler"
                              THEN {"autoplay"} ELSE {})
    /\ updates' = <<>>
    /\ lastEvent' = RerenderEvent("render")
    /\ UNCHANGED <<component, expected, intervalMs, sliderMounted, lastManualNavigation, timeoutId,
                   timers, now, bootstrapState, notIndex>>

\* the passive effects of the last commit run: the files effect (lines 14-35), then the
\* cleanup and the body of the autoplay effect (lines 42-65)
FlushPassiveEffects ==
    /\ effects # {}
    /\ effects' = {}
    /\ updates' = IF "files" \in effects THEN updates \o FilesEffectUpdates(images) ELSE updates
    /\ timeoutId' = IF "autoplay" \in effects
                    THEN AutoplayArmed(intervalMs, files, autoPlayPaused)
                    ELSE timeoutId
    /\ lastEvent' = RerenderEvent("effects")
    /\ UNCHANGED <<component, expected, images, intervalMs, sliderMounted, files, index,
                   lastManualNavigation, autoPlayPaused, timers, now, bootstrapState, notIndex>>

\* lines 52-57: the callback of the timer the autoplay effect holds; it fires once in a
\* while, so at most once between two renders
TimerCallback ==
    /\ timeoutId # <<>>
    /\ \A i \in 1..Len(updates) : updates[i].by # "timer"
    /\ updates' = Append(updates, StateUpdate("next", "timer", <<>>, timeoutId[1].count, FALSE))
    /\ lastEvent' = RerenderEvent("autoplay")
    /\ UNCHANGED <<component, expected, effects, sliderState, now, bootstrapState, notIndex>>

\* lines 126-150: goPrev or goNext of the last commit; React flushes the passive effects
\* before it dispatches a click
Click(kind) ==
    /\ effects = {}
    /\ hasImages(files)
    /\ Len(updates) < MaxBatch
    /\ Len(timers) < MaxPending
    /\ updates' = updates \o <<StateUpdate("paused", "handler", <<>>, 0, TRUE),
                               StateUpdate(kind, "handler", <<>>, Len(files), FALSE)>>
    /\ timers' = Append(timers, [kind |-> "resume"])
    /\ lastEvent' = RerenderEvent(kind)
    /\ UNCHANGED <<component, expected, effects, images, intervalMs, sliderMounted, files, index,
                   lastManualNavigation, autoPlayPaused, timeoutId, now, bootstrapState, notIndex>>

\* lines 134-136, 147-149: a resume timer fires
ResumeCallback ==
    /\ timers # <<>>
    /\ timers' = Tail(timers)
    /\ updates' = Append(updates, StateUpdate("paused", "resume", <<>>, 0, FALSE))
    /\ lastEvent' = RerenderEvent("resume")
    /\ UNCHANGED <<component, expected, effects, images, intervalMs, sliderMounted, files, index,
                   lastManualNavigation, autoPlayPaused, timeoutId, now, bootstrapState, notIndex>>

NextRerender ==
    \/ \E replaced \in BOOLEAN : \E im \in ImageLists : RenderSlider(replaced, im)
    \/ FlushPassiveEffects
    \/ TimerCallback
    \/ \E kind \in {"next", "prev"} : Click(kind)
    \/ ResumeCallback

SpecRerender == InitRerender /\ [][NextRerender]_vars

\* C32: whenever the slider holds a non-empty list, 0 <= index < the number of items, after any
\* list replacements, navigations, autoplay firings and resume firings.
C32_IndexInRange == hasImages(files) => (0 <= index /\ index < Len(files))

-----------------------------------------------------------------------------
(* Detail route: Project under App *)

\* the slugs a detail route is opened with
RouteSlugs == {"p1", "p2", "nope"}

\* line 631: liveDetailMap[projectSlug]
ProjectData(map, slug) == IF slug \in DOMAIN map THEN map[slug] ELSE Null

\* line 635: the condition of the redirect
ShouldRedirect(loaded, slug, projectData) == loaded /\ slug # "" /\ projectData = Null

\* App is mounted with the detail route of a slug open
InitRoute ==
    /\ cms \in {FixtureA, FixtureB}
    /\ now = CACHE_TTL + 1
    /\ \E item \in {MissingItem} \cup {JsonItem(d, <<t0>>) : d \in CacheData, t0 \in {0, now}} :
           sessionStorage = [k \in Keys |-> IF k = BOOTSTRAP_CACHE_KEY THEN item ELSE MissingItem]
    /\ landingSlides = <<>> /\ releases = <<>> /\ liveProjects = <<>>
    /\ liveDetailMap = EmptyObject /\ bioSections = <<>> /\ contactLinks = <<>>
    /\ dataLoaded = FALSE
    /\ load = [r \in Runs |-> IdleRun]
    /\ effectPending = TRUE
    /\ strictMode \in BOOLEAN
    /\ painted = NotPainted
    /\ lastEvent = Event("init", 0, "")
    /\ lastSet = [k \in Keys |-> NoSet]
    /\ \E slug \in RouteSlugs : route = [slug |-> slug, redirected |-> FALSE]
    /\ builderIdle
    /\ sliderIdle
    /\ indexIdle
    /\ scrambleIdle
    /\ scriptIdle

\* lines 633-638: the effect of Project after a commit: window.location.href = '/#/live'
ProjectEffect ==
    /\ ~route.redirected
    /\ ShouldRedirect(dataLoaded, route.slug, ProjectData(liveDetailMap, route.slug))
    /\ route' = [route EXCEPT !.redirected = TRUE]
    /\ lastEvent' = Event("redirect", 0, route.slug)
    /\ UNCHANGED <<bootstrapState, sliderState, now, notRoute>>

NextRoute == NextApp \/ ProjectEffect

SpecRoute == InitRoute /\ [][NextRoute]_vars

\* C33: the detail page redirects only when the loaded flag is true and liveDetailMap has no
\* entry for the slug, and never away from a slug of a post of the CMS live section, also when
\* the states come from a fresh cache entry and the refresh is still under way.
C33_RedirectOnlyWhenMissing ==
    lastEvent.type = "redirect" =>
        /\ lastEvent.loaded
        /\ route.slug \notin DOMAIN lastEvent.bundle.liveDetailMap
        /\ route.slug \notin LiveSlugs

-----------------------------------------------------------------------------
(* Build-time script: generate_bootstrap.mjs *)

\* the snapshots an earlier run of the script may have left at the destination
Snapshots == {BundleOf(FixtureA), BundleOf(FixtureB)}

\* line 138: JSON.stringify(bootstrap); the bundle holds strings, numbers, booleans, null,
\* arrays and plain objects, and a property holding undefined reads as Undefined after a parse
StringifyBootstrap(b) == [kind |-> "json", data |-> b]

\* line 142: JSON.parse(content)
ParseContent(content) == IF content.kind = "json" THEN Ok(content.data) ELSE Thrown

\* Array.isArray
IsArray(v) == DOMAIN v = 1..Len(v)

\* lines 140-146: the validation of the content
Validates(content) ==
    LET parsed == ParseContent(content) IN
    IF ~parsed.ok THEN FALSE
    ELSE IsArray(parsed.value.landingSlides) /\ IsArray(parsed.value.releases)

\* lines 74-132: what buildBootstrap computes from the five posts responses
bootstrapOf(c) ==
    IF \E i \in 1..Len(RequiredSlugs) : StageThrows(c, RequiredSlugs[i]) THEN Thrown
    ELSE Ok(BundleOf(c))

\* fs.writeFileSync(path, content): written, cut short (the disk is full), or not opened
WriteOutcomes == {"written", "partial", "none"}
writeFileSync(f, path, content, outcome) ==
    CASE outcome = "written" -> [f EXCEPT ![path] = content]
      [] outcome = "partial" -> [f EXCEPT ![path] = PartialFile]
      [] outcome = "none" -> f

\* fs.renameSync(from, to): the file at from replaces the file at to in one step
renameSync(f, from, to) ==
    [p \in DOMAIN f |-> IF p = to THEN f[from] ELSE IF p = from THEN NoFile ELSE f[p]]

\* the step taken last, with the files and the position it started from
ScriptEvent(type) == [type |-> type, fs |-> fs, pc |-> script.pc]

InitScript ==
    /\ cms \in AppFixtures
    /\ \E before \in {NoFile} \cup {StringifyBootstrap(b) : b \in Snapshots} :
       \E tmp \in {NoFile, PartialFile} :
           /\ fs = [p \in Paths |-> IF p = outPath THEN before ELSE tmp]
           /\ script = [pc |-> "start", content |-> Null, exit |-> <<>>, before |-> before]
    /\ lastEvent = [type |-> "init", fs |-> fs, pc |-> "start"]
    /\ now = 0
    /\ sessionStorage = [k \in Keys |-> MissingItem]
    /\ landingSlides = <<>> /\ releases = <<>> /\ liveProjects = <<>>
    /\ liveDetailMap = EmptyObject /\ bioSections = <<>> /\ contactLinks = <<>>
    /\ dataLoaded = FALSE
    /\ load = [r \in Runs |-> IdleRun]
    /\ effectPending = FALSE
    /\ strictMode = FALSE
    /\ painted = NotPainted
    /\ lastSet = [k \in Keys |-> NoSet]
    /\ builderIdle
    /\ sliderIdle
    /\ indexIdle
    /\ scrambleIdle
    /\ routeIdle

\* lines 159-163: main() rejected: the message, then process.exit(1)
ExitOnError == [script EXCEPT !.pc = "failed", !.exit = <<1>>]

ScriptStep(type, nextScript, nextFs) ==
    /\ script' = nextScript
    /\ fs' = nextFs
    /\ lastEvent' = ScriptEvent(type)
    /\ UNCHANGED <<bootstrapState, sliderState, now, notScript>>

\* lines 134-137 and 45-49: ensureDir, then the sections request is issued
StartScript(mkdirFails) ==
    /\ script.pc = "start"
    /\ ScriptStep("start",
                  IF mkdirFails THEN ExitOnError ELSE [script EXCEPT !.pc = "sections"], fs)

\* lines 11-17 and 49-72: the sections request fails or is answered; the five
\* requireSectionId calls, then the five posts requests
SectionsAnswered(ok) ==
    /\ script.pc = "sections"
    /\ ScriptStep("sections",
                  IF ok /\ RequireSections(BySlug(cms.sections))
                  THEN [script EXCEPT !.pc = "posts"]
                  ELSE ExitOnError,
                  fs)

\* lines 66-132 and 137-150: one posts request fails, or all five are answered: the bundle,
\* its JSON text and the validation
PostsAnswered(ok) ==
    /\ script.pc = "posts"
    /\ LET bootstrap == bootstrapOf(cms)
           content == StringifyBootstrap(bootstrap.value) IN
       ScriptStep("posts",
                  IF ~ok \/ ~bootstrap.ok THEN ExitOnError
                  ELSE IF ~Validates(content) THEN ExitOnError
                  ELSE [script EXCEPT !.pc = "write", !.content = content],
                  fs)

\* line 152: fs.writeFileSync(tmpPath, content, 'utf8')
WriteTmp(outcome) ==
    /\ script.pc = "write"
    /\ ScriptStep("write",
                  IF outcome = "written" THEN [script EXCEPT !.pc = "rename"] ELSE ExitOnError,
                  writeFileSync(fs, tmpPath, script.content, outcome))

\* line 153: fs.renameSync(tmpPath, outPath), and main() returns
Rename(fails) ==
    /\ script.pc = "rename"
    /\ IF fails
       THEN ScriptStep("rename", ExitOnError, fs)
       ELSE ScriptStep("rename", [script EXCEPT !.pc = "done", !.exit = <<0>>],
                       renameSync(fs, tmpPath, outPath))

NextScript ==
    \/ \E mkdirFails \in BOOLEAN : StartScript(mkdirFails)
    \/ \E ok \in BOOLEAN : SectionsAnswered(ok)
    \/ \E ok \in BOOLEAN : PostsAnswered(ok)
    \/ \E outcome \in WriteOutcomes : WriteTmp(outcome)
    \/ \E fails \in BOOLEAN : Rename(fails)

SpecScript == InitScript /\ [][NextScript]_vars

ValidSnapshot(file) ==
    /\ file.kind = "json"
    /\ IsArray(file.data.landingSlides)
    /\ IsArray(file.data.releases)

\* C29: the destination changes only in the rename, to the validated content that was written
\* to the temp file; every failure (a section missing, a request failed, the build or the
\* validation throwing, the write or the rename failing) ends the script with status 1 and
\* leaves the destination as it was; a run that ends with status 0 left the new snapshot there.
C29_SnapshotWrittenAtomically ==
    /\ fs[outPath] = script.before \/ (script.pc = "done" /\ ValidSnapshot(fs[outPath]))
    /\ script.pc = "failed" => (script.exit = <<1>> /\ fs[outPath] = script.before)
    /\ script.exit = <<0>> => (script.pc = "done" /\ fs[outPath] = script.content)
    /\ script.pc \notin {"done", "failed"} => script.exit = <<>>
    /\ fs[outPath] # lastEvent.fs[outPath] =>
           (lastEvent.type = "rename" /\ fs[outPath] = script.content)
    /\ script.pc \in {"rename", "done"} => ValidSnapshot(script.content)

\* the write of the temp file was cut short: the script failed, the temp file is partial and
\* the destination still holds the snapshot of an earlier run
C29_Witness ==
    /\ script.pc = "failed"
    /\ lastEvent.type = "write"
    /\ fs[tmpPath] = PartialFile
    /\ fs[outPath] = script.before
    /\ script.before.kind = "json"

-----------------------------------------------------------------------------
(* Build-time script and client: buildBootstrap against buildDataFromCms *)

\* generate_bootstrap.mjs 55-59: requireSectionId: if (!s?.id) throw
requireSectionId(bySlug, slug) ==
    IF slug \in DOMAIN bySlug /\ bySlug[slug].id # 0 THEN Ok(bySlug[slug].id) ELSE Thrown

\* generate_bootstrap.mjs 29-41: Array.isArray(data?.posts) ? data.posts : []
ScriptFetchPosts(c, sectionId) ==
    LET data == c.posts[sectionId] IN IF data.hasPosts THEN data.posts ELSE <<>>

\* generate_bootstrap.mjs 74-75: landingPosts?.[0]?.blocks
ScriptLandingSlidesOf(posts) ==
    LET blocks == IF posts = <<>> THEN NotArray ELSE BlocksOf(posts[1])
        fb == firstBlockOfType(blocks, "slideshow") IN
    Ok(IF fb.found THEN slideshowUrls(fb.block) ELSE <<>>)

\* generate_bootstrap.mjs 77-85: the releases; the mapping of a post is the one of the client
ScriptReleaseKeptWithImage(r) == Truthy(r.href) /\ Truthy(r.title) /\ Truthy(r.image)
ScriptReleaseKept(r) == Truthy(r.href) /\ Truthy(r.title)

ScriptReleasesOf(posts) ==
    IF HasNullPost(posts) THEN Thrown
    ELSE Ok(SortByOrder(SelectSeq(SeqMap(posts, ReleaseOf), ScriptReleaseKept)))

\* generate_bootstrap.mjs 45-132: buildBootstrap with every request answered; lines 87-130
\* (live cards, live details, bio, contact) are those of the client, expression by expression
buildBootstrap(c) ==
    LET bySlug == BySlug(c.sections)     \* a sections response that is no array counts as []
        posts(slug) == ScriptFetchPosts(c, requireSectionId(bySlug, slug).value)
    IN
    IF \E i \in 1..Len(RequiredSlugs) : ~requireSectionId(bySlug, RequiredSlugs[i]).ok THEN Thrown
    ELSE LET landing == ScriptLandingSlidesOf(posts("landing"))
             rel == ScriptReleasesOf(posts("releases"))
             cards == LiveProjectsOf(posts("live"))
             details == LiveDetailMapOf(posts("live"))
             bio == BioSectionsOf(posts("bio"))
             contact == ContactLinksOf(posts("contact"))
         IN IF ~landing.ok \/ ~rel.ok \/ ~cards.ok \/ ~details.ok \/ ~bio.ok \/ ~contact.ok
            THEN Thrown
            ELSE Ok([landingSlides |-> landing.value, releases |-> rel.value,
                     liveProjects |-> cards.value, liveDetailMap |-> details.value,
                     bioSections |-> bio.value, contactLinks |-> contact.value])

\* the sections response is no array
FixtureSectionsNotArray == [FixtureA EXCEPT !.sections = NotArray]

EquivFixtures == AppFixtures \cup {FixtureSectionsNotArray}

\* the content both builds are run on: a whole fixture, or one section with up to MaxPosts posts
InitEquiv ==
    /\ \/ /\ section = "none"
          /\ cms \in EquivFixtures
       \/ /\ section \in {RequiredSlugs[i] : i \in 1..Len(RequiredSlugs)}
          /\ \E posts \in BoundedSeqs(PostPool(section), MaxPosts) :
                 cms = [FixtureA EXCEPT !.posts[SectionIdOf(section)] = PostsData(posts)]
    /\ built = Null
    /\ fs = [p \in Paths |-> NoFile]
    /\ script = IdleScript
    /\ now = 0
    /\ sessionStorage = [k \in Keys |-> MissingItem]
    /\ landingSlides = <<>> /\ releases = <<>> /\ liveProjects = <<>>
    /\ liveDetailMap = EmptyObject /\ bioSections = <<>> /\ contactLinks = <<>>
    /\ dataLoaded = FALSE
    /\ load = [r \in Runs |-> IdleRun]
    /\ effectPending = FALSE
    /\ strictMode = FALSE
    /\ painted = NotPainted
    /\ lastEvent = Event("init", 0, "")
    /\ lastSet = [k \in Keys |-> NoSet]
    /\ sliderIdle
    /\ indexIdle
    /\ scrambleIdle
    /\ routeIdle

\* the client and the script build from the same responses
BuildBoth ==
    /\ built = Null
    /\ built' = buildDataFromCms(cms)
    /\ script' = [script EXCEPT !.pc = "built", !.content = buildBootstrap(cms)]
    /\ lastEvent' = Event("build", 0, "")
    /\ UNCHANGED <<cms, sessionStorage, appState, dataLoaded, load, effectPending, strictMode,
                   painted, lastSet, section, fs, sliderState, now, notScript>>

NextEquiv == BuildBoth

SpecEquiv == InitEquiv /\ [][NextEquiv]_vars

\* every required section has an id and every posts response carries an array
InFixtureClass ==
    /\ cms.sections.isArray
    /\ \A i \in 1..Len(cms.sections.items) : cms.sections.items[i].id # 0
    /\ \A i \in 1..Len(cms.posts) : cms.posts[i].hasPosts

SlugMissing ==
    \E i \in 1..Len(RequiredSlugs) :
        \A j \in 1..Len(cms.sections.items) : cms.sections.items[j].slug # RequiredSlugs[i]

====
